---------------------------- MODULE Spec2Model ----------------------------
(***************************************************************************)
(* Flash-loan arbitrage bot: the execution engine (ArbitrageEngine and     *)
(* FlashLoanCore), the data-source coordinator (MCPCoordinator) and the    *)
(* profit estimator (ProfitEstimator), as state machines.                  *)
(*                                                                         *)
(* In the engine, trade sizes and liquidity are integers in USD, profits   *)
(* and costs are integers in cents; profitability and fee rates are in     *)
(* hundredths of a percent (basis points); confidence is in percent.  One  *)
(* clock tick is 30 s (the coordinator's healthCheckInterval).             *)
(***************************************************************************)
EXTENDS Integers, Sequences, FiniteSets, TLC

(***************************************************************************)
(* Bounds of the model.                                                    *)
(***************************************************************************)
MaxQueue == 3        \* longest executionQueue explored
MaxExec == 2         \* executions created in one run
MaxWorkers == 2      \* activations of processExecutionQueue that may coexist
MaxTimers == 1       \* pending setTimeout(processExecutionQueue) callbacks
MaxScans == 1        \* scans awaiting their data at the same time
MaxScanOpps == 2     \* opportunities one scan receives
MaxStops == 1        \* stop() calls waiting at the same time
MaxWait == 4         \* clock ticks counted for one pending transaction
MaxChains == 2       \* retry chains (requests and their failover legs) alive at once
MaxEstNow == 2       \* clock ticks between calls of the estimator
MaxPriceNow == 5     \* clock ticks of the price client
MaxFetches == 2      \* calls of getCurrentPrice for one key awaiting the provider at once
MaxSelections == 3   \* round-robin selections counted for one list of clients
MaxDetected == 4     \* opportunities counted by metrics.opportunitiesDetected
MaxLimitNow == 3     \* ticks of 30 s the rate limiter is followed for

Min(a, b) == IF a < b THEN a ELSE b
Max(a, b) == IF a > b THEN a ELSE b

(***************************************************************************)
(* ArbitrageEngine + FlashLoanCore                                         *)
(***************************************************************************)
VARIABLES
    isRunning,          \* ArbitrageEngine.isRunning
    scanTimer,          \* ArbitrageEngine.scanTimer is set
    scansInFlight,      \* scanForOpportunities calls awaiting getArbitrageData
    executionQueue,     \* ArbitrageEngine.executionQueue (indices into RawOpps)
    processingQueue,    \* ArbitrageEngine.processingQueue
    queueTimers,        \* pending setTimeout(processExecutionQueue, 1000)
    worker,             \* per activation of processExecutionQueue: the execution it awaits, 0 = not active
    stopWaiters,        \* stop() calls polling processingQueue
    nextExec,           \* next execution id
    execState,          \* per execution: where executeOpportunity/executeFlashLoan stands
    execOpp,            \* per execution: the dequeued opportunity
    execCosts,          \* per execution: gas and bridge cost seen by validateOpportunity
    execResult,         \* per execution: what analyzeTransactionResult returned
    reported,           \* per execution: the event executeOpportunity emitted
    waited,             \* per execution: ticks spent in tx.wait()
    stats,              \* ArbitrageEngine.stats (the counters executions touch), and
                        \* under executionStats the counters of FlashLoanCore
    simulationMode      \* the simulation switch of the configuration (ARBITRAGE_SIMULATION)

engineVars == <<isRunning, scanTimer, scansInFlight, executionQueue, processingQueue,
                queueTimers, worker, stopWaiters, nextExec, execState, execOpp,
                execCosts, execResult, reported, waited, stats, simulationMode>>

(***************************************************************************)
(* MCPCoordinator                                                          *)
(***************************************************************************)
VARIABLES
    clients,            \* names in MCPCoordinator.clients: the clients that initialized
    capabilities,       \* MCPCoordinator.capabilities: client -> set of capabilities
    clientHealthy,      \* clients.get(name).isHealthy
    consecutiveErrors,  \* healthStatus.get(name).consecutiveErrors
    circuitBreakers,    \* circuitBreakers.get(name): isOpen, failureCount
    cooldown,           \* ticks left until circuitBreakers.get(name).nextRetryTime
    requestCount,       \* clients.get(name).requestCount
    roundRobinCounters, \* roundRobinCounters, per list of available clients
    chains,             \* the withRetry loops in progress
    aged,               \* per chain: requestTimeout has passed since executeRequest began
    probing,            \* per client: checkClientHealth awaits its healthCheck()
    weight              \* loadBalancingStats.get(name).weight, in tenths

coordVars == <<clients, capabilities, clientHealthy, consecutiveErrors, circuitBreakers, cooldown,
               requestCount, roundRobinCounters, chains, aged, probing, weight>>

(***************************************************************************)
(* ProfitEstimator                                                         *)
(***************************************************************************)
VARIABLES
    estOpportunity,     \* the opportunity last handed to estimateProfit
    estResult,          \* what estimateProfit returned for it
    estNow              \* Date.now() as the estimator reads it, in ticks

estVars == <<estOpportunity, estResult, estNow>>

(***************************************************************************)
(* CoinGeckoMCPClient: the price cache                                     *)
(***************************************************************************)
VARIABLES
    priceNow,           \* Date.now() as the price client reads it, in ticks of 10 s
    priceCache,         \* priceCache: cache key -> {price, timestamp}
    fetching,           \* per cache key: calls of getCurrentPrice awaiting the provider
    lastPrice           \* the outcome of the getCurrentPrice call that settled last

priceVars == <<priceNow, priceCache, fetching, lastPrice>>

(***************************************************************************)
(* The flash-loan callback: FlashLoanExecutorBSC and FlashLoanCallbacks    *)
(***************************************************************************)
VARIABLES
    cbCall,             \* the flash loan last executed: who ran it and with what
    cbResult            \* whether it completed, and the balance after both swaps

callbackVars == <<cbCall, cbResult>>

(***************************************************************************)
(* Client selection of the coordinator: selectByRoundRobin and             *)
(* selectByPriority of MCPCoordinator, on the shipped clientConfigs        *)
(***************************************************************************)
VARIABLES
    selUp,              \* the clients that are initialized, healthy and with a closed breaker
    selCounters,        \* roundRobinCounters: list of client names -> selections counted
    selLast             \* the selection made last: strategy, capability, list, client chosen

selVars == <<selUp, selCounters, selLast>>

(***************************************************************************)
(* The scanner: SameChainArbitrage.detectOpportunities and analyzePair     *)
(***************************************************************************)
VARIABLES
    scanSimulation,         \* config.simulationMode of the scanner
    opportunities,          \* this.opportunities: what the last scan emitted, ranked
    opportunitiesDetected,  \* metrics.opportunitiesDetected
    opportunitiesExecuted   \* metrics.opportunitiesExecuted

scanVars == <<scanSimulation, opportunities, opportunitiesDetected, opportunitiesExecuted>>

(***************************************************************************)
(* The rate limiter of the price clients: checkRateLimit of                *)
(* EnhancedCoinGeckoClient and CoinGeckoMCPClient                          *)
(***************************************************************************)
VARIABLES
    limitNow,           \* Date.now() as checkRateLimit reads it, in ticks of 30 s
    rateLimiter,        \* this.rateLimiter: requests and lastReset
    sentAt,             \* per tick: the upstream requests sent (mcpCall reached)
    limitLast           \* what became of the request that arrived last

limitVars == <<limitNow, rateLimiter, sentAt, limitLast>>

\* The parts of the program beside the engine, the coordinator and the estimator
auxVars == <<priceVars, callbackVars, selVars, scanVars, limitVars>>

Chains == {"bsc", "polygon"}

\* A field the data source left out (undefined in the JavaScript object)
Undefined == 0 - 1

\* Opportunities as getArbitrageData may return them.
RawOpps ==
  << [chain |-> "bsc",     profitability |-> 50,  liquidity |-> 200000, confidence |-> 90,
      amount |-> 1000,      expectedProfit |-> Undefined, feeRate |-> 100],
     [chain |-> "bsc",     profitability |-> 100, liquidity |-> 200000, confidence |-> 90,
      amount |-> 1000,      expectedProfit |-> Undefined, feeRate |-> 9],
     [chain |-> "polygon", profitability |-> 40,  liquidity |-> 200000, confidence |-> 90,
      amount |-> 1000,      expectedProfit |-> Undefined, feeRate |-> 9],
     [chain |-> "polygon", profitability |-> 100, liquidity |-> 40000,  confidence |-> 90,
      amount |-> 1000,      expectedProfit |-> Undefined, feeRate |-> 9],
     [chain |-> "bsc",     profitability |-> 100, liquidity |-> 200000, confidence |-> 60,
      amount |-> 1000,      expectedProfit |-> Undefined, feeRate |-> 9],
     [chain |-> "bsc",     profitability |-> 100, liquidity |-> 200000, confidence |-> 90,
      amount |-> Undefined, expectedProfit |-> Undefined, feeRate |-> 9],
     [chain |-> "polygon", profitability |-> 100, liquidity |-> 200000, confidence |-> 90,
      amount |-> 1000,      expectedProfit |-> 1,         feeRate |-> 9] >>

OppIds == 1..Len(RawOpps)

\* Further opportunities getArbitrageData may return, for the ranking: one
\* with a lower score but a larger expected profit than the second of
\* RawOpps, and the second of RawOpps on polygon
WideOpps ==
  << [chain |-> "bsc",     profitability |-> 60,  liquidity |-> 1000000, confidence |-> 95,
      amount |-> 1000,      expectedProfit |-> Undefined, feeRate |-> 9],
     [chain |-> "polygon", profitability |-> 100, liquidity |-> 200000,  confidence |-> 90,
      amount |-> 1000,      expectedProfit |-> Undefined, feeRate |-> 9] >>

AllOpps == RawOpps \o WideOpps

MinProfitability == 50               \* 0.5 %, in hundredths of a percent
MinLiquidity == 50000
MinConfidence == 70
MinTradeSize == 1000
MaxTradeSize == 100000
EngineGasCost == 1                   \* estimateGasCost: 20 gwei * 500000 gas = 0.01
GasCosts == {1, 25000}               \* FlashLoanCore.estimateGasCost results, cents
BridgeCosts == {0, 6000}             \* getBridgeCosts().totalCost, cents

\* ArbitrageEngine.checkDEXLiquidity: liquidity >= amount * 2 (false for NaN)
CheckDEXLiquidity(o) ==
    /\ o.amount # Undefined
    /\ o.liquidity >= o.amount * 2

\* ArbitrageEngine.validateOpportunity; providerOk: getOptimalFlashLoanProvider
\* answered with a provider.  An undefined expectedProfit makes the gas
\* comparison NaN, which is false.
EngineValidateOpportunity(o, providerOk) ==
    /\ providerOk
    /\ ~(o.expectedProfit # Undefined /\ EngineGasCost * 10 > o.expectedProfit * 3)
    /\ CheckDEXLiquidity(o)

\* ArbitrageEngine.calculateOptimalTradeSize (Kelly fraction capped at 10 %)
CalculateOptimalTradeSize(o) ==
    LET kellyNum == o.confidence * o.profitability - 200 * (100 - o.confidence)
        kellyDen == 100 * o.profitability
        bySize   == IF kellyNum * 10 >= kellyDen
                    THEN o.liquidity \div 10
                    ELSE (o.liquidity * kellyNum) \div kellyDen
    IN  Max(MinTradeSize, Min(bySize, MaxTradeSize))

\* The opportunity as filterOpportunities pushes it: amount and expectedProfit set.
Amount(i) == CalculateOptimalTradeSize(AllOpps[i])
ExpectedProfit(i) == (Amount(i) * AllOpps[i].profitability) \div 100

\* ArbitrageEngine.filterOpportunities: the test one opportunity has to pass
PassesFilter(i, providerOk) ==
    LET o == AllOpps[i] IN
    /\ ~(o.profitability < MinProfitability)
    /\ ~(o.liquidity < MinLiquidity)
    /\ ~(o.confidence < MinConfidence)
    /\ EngineValidateOpportunity(o, providerOk)

\* ln(liquidity) * 10, for the liquidities of AllOpps
LogLiquidity(l) == IF l >= 1000000 THEN 138 ELSE IF l >= 200000 THEN 122 ELSE 106

\* ArbitrageEngine.rankOpportunities: the score of one opportunity
Score(i) == AllOpps[i].profitability * AllOpps[i].confidence * LogLiquidity(AllOpps[i].liquidity)

\* Array.prototype.sort with (a, b) => scoreB - scoreA: stable, descending
RECURSIVE InsertRanked(_, _)
InsertRanked(s, i) ==
    IF s = <<>> THEN <<i>>
    ELSE IF Score(Head(s)) >= Score(i) THEN <<Head(s)>> \o InsertRanked(Tail(s), i)
    ELSE <<i>> \o s

RECURSIVE RankOpportunities(_)
RankOpportunities(s) ==
    IF s = <<>> THEN <<>>
    ELSE InsertRanked(RankOpportunities(SubSeq(s, 1, Len(s) - 1)), s[Len(s)])

RECURSIVE FilterOpportunities(_, _)
FilterOpportunities(s, providerOk) ==
    IF s = <<>> THEN <<>>
    ELSE (IF PassesFilter(Head(s), providerOk) THEN <<Head(s)>> ELSE <<>>)
         \o FilterOpportunities(Tail(s), providerOk)

\* What getArbitrageData may deliver: up to MaxScanOpps opportunities
Deliveries ==
    {<<>>} \cup UNION {{d \in [1..n -> OppIds] : \A k \in 1..(n - 1) : d[k] < d[k + 1]}
                        : n \in 1..MaxScanOpps}

ExecIds == 1..MaxExec
Workers == 1..MaxWorkers
NoResult == [status |-> 0, success |-> FALSE, profit |-> 0]

Terminal == {"Succeeded", "Reverted", "Abandoned"}
InFlight == {"Submitting", "Pending"}

EngineInit ==
    /\ isRunning = FALSE
    /\ scanTimer = FALSE
    /\ scansInFlight = 0
    /\ executionQueue = <<>>
    /\ processingQueue = FALSE
    /\ queueTimers = 0
    /\ worker = [w \in Workers |-> 0]
    /\ stopWaiters = 0
    /\ nextExec = 1
    /\ execState = [e \in ExecIds |-> "None"]
    /\ execOpp = [e \in ExecIds |-> 1]
    /\ execCosts = [e \in ExecIds |-> 0]
    /\ execResult = [e \in ExecIds |-> NoResult]
    /\ reported = [e \in ExecIds |-> "none"]
    /\ waited = [e \in ExecIds |-> 0]
    /\ stats = [opportunitiesExecuted |-> 0, successfulExecutions |-> 0,
                executionStats |-> [totalExecutions |-> 0, successfulExecutions |-> 0,
                                    failedExecutions |-> 0]]

(***************************************************************************)
(* processExecutionQueue, start, stop, scanForOpportunities                *)
(***************************************************************************)
\* processExecutionQueue without its processingQueue test
PEQGuardNoFlag(running) == running

\* line 293: the test that lets an activation enter the loop; running is
\* the value of isRunning the activation reads
PEQGuard(running) == ~processingQueue /\ running

\* line 297: the loop's test
LoopTest(running) == executionQueue # <<>> /\ running

\* The model has an execution id left for the opportunity the loop would dequeue.
CanStep(running) == LoopTest(running) => nextExec <= MaxExec

\* A queue that keeps the opportunity handed to executeOpportunity
QueueKeepsHead == executionQueue

\* The queue after executionQueue.shift() (line 298)
QueueAfterShift == Tail(executionQueue)

\* Lines 297-313 for activation w, with es, st and timers the execution
\* states, the counters and the pending timers as the step before left
\* them: dequeue the head and call executeOpportunity (which counts it,
\* line 331), or leave the loop, clear the flag and re-arm the timer.
LoopHead(w, es, st, running, timers) ==
    IF LoopTest(running)
    THEN /\ executionQueue' = QueueAfterShift
         /\ execState' = [es EXCEPT ![nextExec] = "Created"]
         /\ execOpp' = [execOpp EXCEPT ![nextExec] = Head(executionQueue)]
         /\ worker' = [worker EXCEPT ![w] = nextExec]
         /\ nextExec' = nextExec + 1
         /\ processingQueue' = TRUE
         /\ stats' = [st EXCEPT !.opportunitiesExecuted = @ + 1]
         /\ queueTimers' = timers
    ELSE /\ execState' = es
         /\ worker' = [worker EXCEPT ![w] = 0]
         /\ processingQueue' = FALSE
         /\ queueTimers' = IF running THEN Min(timers + 1, MaxTimers) ELSE timers
         /\ stats' = st
         /\ UNCHANGED <<executionQueue, execOpp, nextExec>>

\* processExecutionQueue() called: lines 292-314 up to the first await
EnterQueue(running, timers) ==
    IF PEQGuard(running)
    THEN /\ \E w \in Workers : worker[w] = 0
         /\ CanStep(running)
         /\ LoopHead(CHOOSE w \in Workers : worker[w] = 0, execState, stats, running, timers)
    ELSE /\ queueTimers' = timers
         /\ UNCHANGED <<executionQueue, execState, execOpp, worker, nextExec,
                        processingQueue, stats>>

\* ArbitrageEngine.start (lines 60-79)
Start ==
    /\ UNCHANGED <<coordVars, estVars, auxVars, simulationMode>>
    /\ ~isRunning
    /\ isRunning' = TRUE
    /\ scanTimer' = TRUE
    /\ EnterQueue(TRUE, queueTimers)
    /\ UNCHANGED <<scansInFlight, stopWaiters, execCosts, execResult, reported, waited>>

\* The timer of line 312 fires
QueueTimerFires ==
    /\ UNCHANGED <<coordVars, estVars, auxVars, simulationMode>>
    /\ queueTimers > 0
    /\ EnterQueue(isRunning, queueTimers - 1)
    /\ UNCHANGED <<isRunning, scanTimer, scansInFlight, stopWaiters, execCosts,
                   execResult, reported, waited>>

\* ArbitrageEngine.stop up to its wait loop (lines 84-99)
StopBegin ==
    /\ UNCHANGED <<coordVars, estVars, auxVars, simulationMode>>
    /\ isRunning
    /\ stopWaiters < MaxStops
    /\ isRunning' = FALSE
    /\ scanTimer' = FALSE
    /\ stopWaiters' = stopWaiters + 1
    /\ UNCHANGED <<scansInFlight, executionQueue, processingQueue, queueTimers, worker,
                   nextExec, execState, execOpp, execCosts, execResult, reported,
                   waited, stats>>

\* A wait loop that ends whatever the queue is doing
StopWaitSkipped == TRUE

\* line 99: the test that ends stop's wait loop
StopWaitOver == ~processingQueue

\* stop's wait loop sees processingQueue false (lines 99-104)
StopEnd ==
    /\ UNCHANGED <<coordVars, estVars, auxVars, simulationMode>>
    /\ stopWaiters > 0
    /\ StopWaitOver
    /\ stopWaiters' = stopWaiters - 1
    /\ UNCHANGED <<isRunning, scanTimer, scansInFlight, executionQueue, processingQueue,
                   queueTimers, worker, nextExec, execState, execOpp, execCosts,
                   execResult, reported, waited, stats>>

\* The scan timer fires: scanForOpportunities up to await getArbitrageData
\* (lines 110-123)
ScanBegin ==
    /\ UNCHANGED <<coordVars, estVars, auxVars, simulationMode>>
    /\ scanTimer
    /\ isRunning
    /\ scansInFlight < MaxScans
    /\ scansInFlight' = scansInFlight + 1
    /\ UNCHANGED <<isRunning, scanTimer, executionQueue, processingQueue, queueTimers,
                   worker, stopWaiters, nextExec, execState, execOpp, execCosts,
                   execResult, reported, waited, stats>>

\* getArbitrageData answers: filter, rank, push (lines 125-147).  A failed
\* request (lines 149-152) leaves the state as an empty answer does.
ScanDeliverFrom(answers) ==
    /\ UNCHANGED <<coordVars, estVars, auxVars, simulationMode>>
    /\ scansInFlight > 0
    /\ \E d \in answers, providerOk \in BOOLEAN :
         LET ranked == RankOpportunities(FilterOpportunities(d, providerOk)) IN
         /\ Len(executionQueue) + Len(ranked) <= MaxQueue
         /\ executionQueue' = executionQueue \o ranked
    /\ scansInFlight' = scansInFlight - 1
    /\ UNCHANGED <<isRunning, scanTimer, processingQueue, queueTimers, worker,
                   stopWaiters, nextExec, execState, execOpp, execCosts, execResult,
                   reported, waited, stats>>

ScanDeliver == ScanDeliverFrom(Deliveries)

\* What getArbitrageData may deliver out of AllOpps: up to MaxScanOpps
\* opportunities
WideDeliveries ==
    {d \in UNION {[1..n -> 1..Len(AllOpps)] : n \in 1..MaxScanOpps} :
        \A k \in 1..(Len(d) - 1) : d[k] < d[k + 1]}

ScanDeliverWide == ScanDeliverFrom(WideDeliveries)

(***************************************************************************)
(* executeOpportunity -> FlashLoanCore.executeFlashLoan                    *)
(***************************************************************************)
\* FlashLoanCore.validateOpportunity, the checks before getBridgeCosts
\* (part_003 lines 122-136), for queued opportunity i and gas cost gas
CoreValidateOpportunity(i, gas) ==
    /\ ~(AllOpps[i].profitability < MinProfitability)
    /\ ~(AllOpps[i].liquidity * 2 < Amount(i) * 3)
    /\ ~(gas * 10 > ExpectedProfit(i) * 3)

\* part_003 lines 147-149: the bridge-cost check
BridgeCheck(i, bridge) == ~(bridge * 2 > ExpectedProfit(i))

\* FlashLoanCore.analyzeTransactionResult (part_003 lines 295-330): profit and
\* fees are read off the opportunity when the receipt has a log
AnalyzeTransactionResult(i, status, hasLogs) ==
    LET profit == IF hasLogs THEN ExpectedProfit(i) ELSE 0
        actualFees == IF hasLogs THEN (Amount(i) * AllOpps[i].feeRate) \div 100 ELSE 0
    IN  [status |-> status, success |-> (status = 1), profit |-> profit - actualFees]

\* FlashLoanCore.updateStats (part_003 lines 392-403), reached when
\* executeAtomicTransaction returned a result
UpdateStats(st, result) ==
    [st EXCEPT !.executionStats =
        IF result.success
        THEN [@ EXCEPT !.totalExecutions = @ + 1, !.successfulExecutions = @ + 1]
        ELSE [@ EXCEPT !.totalExecutions = @ + 1, !.failedExecutions = @ + 1]]

\* The catch of FlashLoanCore.executeFlashLoan (part_003 lines 110-115):
\* whatever threw, failedExecutions grows and the error goes on to the engine
ExecutionThrew(st) ==
    [st EXCEPT !.executionStats = [@ EXCEPT !.failedExecutions = @ + 1]]

\* An execution sent back to build its transaction again
BackToBuilding == "Building"

\* The state an execution is left in when submitTransaction throws: the
\* error goes up through executeAtomicTransaction and executeFlashLoan
\* (part_003 lines 207-210, 110-115), nothing is retried
AfterSubmitFailure == "Abandoned"

\* executeOpportunity of execution e returns to the loop of its activation:
\* e gets state to, the event ev is emitted, the counters become st, and the
\* loop goes on (processExecutionQueue lines 297-313)
Finish(e, to, ev, st) ==
    /\ CanStep(isRunning)
    /\ \E w \in Workers :
         /\ worker[w] = e
         /\ LoopHead(w, [execState EXCEPT ![e] = to], st, isRunning, queueTimers)
    /\ reported' = [reported EXCEPT ![e] = ev]
    /\ execCosts' = [execCosts EXCEPT ![e] = 0]
    /\ waited' = [waited EXCEPT ![e] = 0]

\* validateOpportunity up to its gas check
ExecValidateGas(e) ==
    /\ UNCHANGED <<coordVars, estVars, auxVars, simulationMode>>
    /\ execState[e] = "Created"
    /\ \E gas \in GasCosts :
         IF CoreValidateOpportunity(execOpp[e], gas)
         THEN /\ execState' = [execState EXCEPT ![e] = "Admitting"]
              /\ execCosts' = [execCosts EXCEPT ![e] = gas]
              /\ UNCHANGED <<executionQueue, processingQueue, queueTimers, worker,
                             nextExec, execOpp, reported, stats, waited>>
         ELSE Finish(e, "Abandoned", "executionError", ExecutionThrew(stats))
    /\ UNCHANGED <<isRunning, scanTimer, scansInFlight, stopWaiters, execResult>>

\* validateOpportunity: getBridgeCosts answers (or fails) and the rest
ExecValidateBridge(e) ==
    /\ UNCHANGED <<coordVars, estVars, auxVars, simulationMode>>
    /\ execState[e] = "Admitting"
    /\ \/ \E bridge \in BridgeCosts :
            IF BridgeCheck(execOpp[e], bridge)
            THEN /\ execState' = [execState EXCEPT ![e] = "Building"]
                 /\ execCosts' = [execCosts EXCEPT ![e] = @ + bridge]
                 /\ UNCHANGED <<executionQueue, processingQueue, queueTimers, worker,
                                nextExec, execOpp, reported, stats, waited>>
            ELSE Finish(e, "Abandoned", "executionError", ExecutionThrew(stats))
       \/ Finish(e, "Abandoned", "executionError", ExecutionThrew(stats))
    /\ UNCHANGED <<isRunning, scanTimer, scansInFlight, stopWaiters, execResult>>

\* getOptimalProvider and prepareTxParams (part_003 lines 96, 183): either
\* may throw
ExecBuild(e) ==
    /\ UNCHANGED <<coordVars, estVars, auxVars, simulationMode>>
    /\ execState[e] = "Building"
    /\ \/ /\ execState' = [execState EXCEPT ![e] = "Submitting"]
          /\ UNCHANGED <<executionQueue, processingQueue, queueTimers, worker,
                         nextExec, execOpp, reported, stats, execCosts, waited>>
       \/ Finish(e, "Abandoned", "executionError", ExecutionThrew(stats))
    /\ UNCHANGED <<isRunning, scanTimer, scansInFlight, stopWaiters, execResult>>

\* submitTransaction (part_003 line 186): the node takes the transaction or
\* the call throws
ExecSubmit(e) ==
    /\ UNCHANGED <<coordVars, estVars, auxVars, simulationMode>>
    /\ execState[e] = "Submitting"
    /\ \/ /\ execState' = [execState EXCEPT ![e] = "Pending"]
          /\ UNCHANGED <<executionQueue, processingQueue, queueTimers, worker,
                         nextExec, execOpp, reported, stats, execCosts, waited>>
       \/ Finish(e, AfterSubmitFailure, "executionError", ExecutionThrew(stats))
    /\ UNCHANGED <<isRunning, scanTimer, scansInFlight, stopWaiters, execResult>>

\* tx.wait() resolves (ethers 6 resolves only with a receipt of status 1),
\* analyzeTransactionResult, updateStats, and executeOpportunity's handling
\* of the result (engine lines 339-353)
ExecIncluded(e) ==
    /\ UNCHANGED <<coordVars, estVars, auxVars, simulationMode>>
    /\ execState[e] = "Pending"
    /\ \E hasLogs \in BOOLEAN :
         LET result == AnalyzeTransactionResult(execOpp[e], 1, hasLogs) IN
         /\ execResult' = [execResult EXCEPT ![e] = result]
         /\ IF result.success
            THEN Finish(e, "Succeeded", "executionSuccess",
                        [UpdateStats(stats, result) EXCEPT !.successfulExecutions = @ + 1])
            ELSE Finish(e, "Reverted", "executionFailed", UpdateStats(stats, result))
    /\ UNCHANGED <<isRunning, scanTimer, scansInFlight, stopWaiters>>

\* tx.wait() rejects: the transaction reverted on chain
ExecReverted(e) ==
    /\ UNCHANGED <<coordVars, estVars, auxVars, simulationMode>>
    /\ execState[e] = "Pending"
    /\ Finish(e, "Reverted", "executionError", ExecutionThrew(stats))
    /\ UNCHANGED <<isRunning, scanTimer, scansInFlight, stopWaiters, execResult>>

\* 30 s pass while tx.wait() of some execution has not settled
EngineTick ==
    /\ UNCHANGED <<coordVars, estVars, auxVars, simulationMode>>
    /\ \E e \in ExecIds : execState[e] = "Pending" /\ waited[e] < MaxWait
    /\ waited' = [e \in ExecIds |->
                    IF execState[e] = "Pending" THEN Min(waited[e] + 1, MaxWait)
                    ELSE waited[e]]
    /\ UNCHANGED <<isRunning, scanTimer, scansInFlight, executionQueue, processingQueue,
                   queueTimers, worker, stopWaiters, nextExec, execState, execOpp,
                   execCosts, execResult, reported, stats>>

EngineNext ==
    \/ Start
    \/ StopBegin
    \/ StopEnd
    \/ QueueTimerFires
    \/ ScanBegin
    \/ ScanDeliver
    \/ \E e \in ExecIds : ExecValidateGas(e)
    \/ \E e \in ExecIds : ExecValidateBridge(e)
    \/ \E e \in ExecIds : ExecBuild(e)
    \/ \E e \in ExecIds : ExecSubmit(e)
    \/ \E e \in ExecIds : ExecIncluded(e)
    \/ \E e \in ExecIds : ExecReverted(e)
    \/ EngineTick

(***************************************************************************)
(* MCPCoordinator: routing, retry, failover, circuit breaker, health       *)
(***************************************************************************)
\* The clients in the order initialize() registers them
ClientOrder == <<"coingecko", "web3">>
Clients == {ClientOrder[k] : k \in 1..Len(ClientOrder)}
Capabilities == {"pricing", "blockchain"}

\* clientConfigs[name].capabilities (lines 46-68), cut down to two clients
\* and one capability each
ClientCapabilities ==
    [p \in Clients |-> IF p = "coingecko" THEN {"pricing"} ELSE {"blockchain"}]

\* The lowest of a non-empty set of chain slots
Lowest(S) == CHOOSE c \in S : \A d \in S : c <= d

MaxRetries == 3                  \* config.maxRetries
CircuitBreakerThreshold == 5     \* config.circuitBreakerThreshold
CircuitBreakerTimeout == 2       \* config.circuitBreakerTimeout, 60 s in ticks
UnhealthyThreshold == 3          \* consecutive errors that mark a client unhealthy

InitialWeight == 10              \* loadBalancingStats weight 1.0, in tenths
MinWeight == 1                   \* the floor 0.1 of updateFailureMetrics
MaxWeight == 20                  \* the ceiling 2.0 of updateSuccessMetrics
RetryDelay == 1000               \* config.retryDelay, ms
MaxDelay == 10000                \* config.maxDelay, ms

ChainIds == 1..MaxChains

\* A chain that is not running
IdleChain == [pc |-> "idle", client |-> "none", attempt |-> 0, outer |-> "none",
              detached |-> FALSE, delay |-> 0]

\* executeRequest's first call of the operation on client p; outer is the
\* client the request failed over from ("none" for a request routeRequest
\* placed: no caller sets enableFailover, only attemptFailover does)
FirstCall(p, outer) ==
    [pc |-> "call", client |-> p, attempt |-> 1, outer |-> outer, detached |-> FALSE,
     delay |-> 0]

\* The lists of clients routing may have to choose from
RECURSIVE SubSeqs(_)
SubSeqs(s) ==
    IF s = <<>> THEN {<<>>}
    ELSE LET rest == SubSeqs(Tail(s)) IN rest \cup {<<Head(s)>> \o t : t \in rest}

ClientLists == SubSeqs(ClientOrder) \ {<<>>}

\* The coordinator after initialize() (lines 74-110) when the clients in
\* ok initialized and the others failed: initializeClientTracking (lines
\* 166-201) for the first, markClientUnhealthy (lines 724-750) for the
\* others.  caps is clientConfigs[name].capabilities.
CoordInitWith(ok, caps) ==
    /\ clients = ok
    /\ capabilities = [p \in Clients |-> IF p \in ok THEN caps[p] ELSE {}]
    /\ clientHealthy = [p \in Clients |-> p \in ok]
    /\ consecutiveErrors = [p \in Clients |-> IF p \in ok THEN 0 ELSE 1]
    /\ circuitBreakers =
         [p \in Clients |->
            IF p \in ok THEN [isOpen |-> FALSE, failureCount |-> 0]
            ELSE [isOpen |-> TRUE, failureCount |-> CircuitBreakerThreshold]]
    /\ cooldown = [p \in Clients |-> IF p \in ok THEN 0 ELSE CircuitBreakerTimeout]
    /\ requestCount = [p \in Clients |-> 0]
    /\ roundRobinCounters = [l \in ClientLists |-> 0]
    /\ chains = [c \in ChainIds |-> IdleChain]
    /\ aged = [c \in ChainIds |-> FALSE]
    /\ probing = [p \in Clients |-> FALSE]
    /\ weight = [p \in Clients |-> IF p \in ok THEN InitialWeight ELSE Undefined]

\* The coordinator after initialize() with the clientConfigs of the constructor
CoordInit(ok) == CoordInitWith(ok, ClientCapabilities)

\* loadStats.weight after updateFailureMetrics (line 558): times 0.8, at
\* least 0.1.  Weights are in tenths, rounded to the nearest tenth.
WeightAfterFailure(w) == Max((w * 8 + 5) \div 10, MinWeight)

\* A weight raised by a tenth without a ceiling
WeightUncapped(w) == (w * 11 + 5) \div 10

\* loadStats.weight after updateSuccessMetrics (line 518): times 1.1, at
\* most 2.0
WeightAfterSuccess(w) == Min((w * 11 + 5) \div 10, MaxWeight)

\* The clients of list s that pass test(_), in the order of s
RECURSIVE SelectSeq2(_, _)
SelectSeq2(s, keep) ==
    IF s = <<>> THEN <<>>
    ELSE (IF Head(s) \in keep THEN <<Head(s)>> ELSE <<>>) \o SelectSeq2(Tail(s), keep)

\* A test of the clients that does not look at their breakers
SelectableIgnoringBreaker(p) == p \in clients /\ clientHealthy[p]

\* The test of getClientsForCapability and attemptFailover (lines 233, 461)
Selectable(p) == p \in clients /\ clientHealthy[p] /\ ~circuitBreakers[p].isOpen

\* MCPCoordinator.getClientsForCapability
GetClientsForCapability(cap) ==
    SelectSeq2(ClientOrder, {p \in Clients : cap \in capabilities[p] /\ Selectable(p)})

\* Alternatives that may be the failed client itself
AlternativesWithFailed(failed) ==
    SelectSeq2(ClientOrder,
               {p \in Clients : /\ capabilities[p] \cap capabilities[failed] # {}
                                /\ p \in clients /\ clientHealthy[p]})

\* attemptFailover: the alternatives to the failed client (lines 452-466)
AlternativeClients(failed) ==
    SelectSeq2(ClientOrder,
               {p \in Clients : /\ p # failed
                                /\ capabilities[p] \cap capabilities[failed] # {}
                                /\ Selectable(p)})

\* MCPCoordinator.selectByRoundRobin: the client chosen from a non-empty list
SelectByRoundRobin(available) ==
    available[(roundRobinCounters[available] % Len(available)) + 1]

\* ... and its counter afterwards (kept modulo the length of the list)
RoundRobinAfter(available) ==
    [roundRobinCounters EXCEPT ![available] = (@ + 1) % Len(available)]

\* updateFailureMetrics (lines 524-559): the breaker of a client after one
\* more failed request; failureCount is kept up to the threshold
BreakerAfterFailure(b) ==
    [isOpen |-> b.isOpen \/ b.failureCount + 1 >= CircuitBreakerThreshold,
     failureCount |-> Min(b.failureCount + 1, CircuitBreakerThreshold)]

\* updateSuccessMetrics (lines 508-512): the breaker after a successful request
BreakerAfterSuccess(b) ==
    IF b.isOpen THEN [isOpen |-> FALSE, failureCount |-> 0] ELSE b

\* A breaker that a round of health checks leaves as it is
BreakerKeptAsIs(p) == circuitBreakers[p]

\* checkCircuitBreakers (lines 634-644): the breaker of p at the end of a
\* round of health checks
BreakerAfterCheck(p) ==
    IF circuitBreakers[p].isOpen /\ cooldown[p] = 0
    THEN [isOpen |-> FALSE, failureCount |-> 0]
    ELSE circuitBreakers[p]

\* updateFailureMetrics(p) and what follows it in executeRequest's catch and
\* finally (lines 391-404) for a request on p that had outer as the client it
\* failed over from: the counters of p, the failover leg if there is one.
\* leg is the chain slot the failover leg runs in, cs the chains without it.
RequestFailed(p, outer, leg, cs) ==
    LET alts == AlternativeClients(p)
        over == outer = "none" /\ alts # <<>>
        alt  == SelectByRoundRobin(alts)
    IN  /\ consecutiveErrors' =
              [consecutiveErrors EXCEPT ![p] = Min(@ + 1, UnhealthyThreshold)]
        /\ circuitBreakers' = [circuitBreakers EXCEPT ![p] = BreakerAfterFailure(@)]
        /\ cooldown' = [cooldown EXCEPT ![p] =
                          IF BreakerAfterFailure(circuitBreakers[p]).isOpen
                          THEN CircuitBreakerTimeout ELSE @]
        /\ clientHealthy' = [clientHealthy EXCEPT ![p] =
                               IF consecutiveErrors[p] + 1 >= UnhealthyThreshold
                               THEN FALSE ELSE @]
        /\ weight' = [weight EXCEPT ![p] = WeightAfterFailure(@)]
        /\ aged' = [d \in ChainIds |->
                       /\ aged[d]
                       /\ cs[d].pc # "idle"
                       /\ ~cs[d].detached
                       /\ ~(over /\ d = leg)]
        /\ IF over
           THEN /\ chains' = [cs EXCEPT ![leg] = FirstCall(alt, p)]
                /\ roundRobinCounters' = RoundRobinAfter(alts)
                /\ requestCount' = [requestCount EXCEPT ![alt] = @ + 1]
           ELSE /\ chains' = cs
                /\ roundRobinCounters' = roundRobinCounters
                /\ requestCount' =
                     [q \in Clients |->
                        requestCount[q] - (IF q = p THEN 1 ELSE 0)
                                        - (IF q = outer THEN 1 ELSE 0)]

\* routeRequest (lines 206-220) up to the first call of the operation in
\* executeRequest (lines 357-372)
RouteRequest(cap) ==
    LET available == GetClientsForCapability(cap)
        p == SelectByRoundRobin(available)
        c == Lowest({d \in ChainIds : chains[d].pc = "idle"})
    IN  /\ \E d \in ChainIds : chains[d].pc = "idle"
        /\ available # <<>>
        /\ roundRobinCounters' = RoundRobinAfter(available)
        /\ requestCount' = [requestCount EXCEPT ![p] = @ + 1]
        /\ chains' = [chains EXCEPT ![c] = FirstCall(p, "none")]
        /\ aged' = [aged EXCEPT ![c] = FALSE]
        /\ UNCHANGED <<clients, capabilities, clientHealthy, consecutiveErrors,
                       circuitBreakers, cooldown, probing, weight, engineVars, estVars, auxVars>>

\* The operation resolves: withRetry returns, executeRequest updates the
\* success metrics and its finally (and that of the request it is the failover
\* of) releases the counters.  Nobody listens to a detached chain.
OperationSucceeds(c) ==
    LET p == chains[c].client IN
    /\ chains[c].pc = "call"
    /\ chains' = [chains EXCEPT ![c] = IdleChain]
    /\ IF chains[c].detached
       THEN UNCHANGED <<clientHealthy, consecutiveErrors, circuitBreakers, requestCount,
                        weight>>
       ELSE /\ circuitBreakers' = [circuitBreakers EXCEPT ![p] = BreakerAfterSuccess(@)]
            /\ weight' = [weight EXCEPT ![p] = WeightAfterSuccess(@)]
            /\ consecutiveErrors' = [consecutiveErrors EXCEPT ![p] = 0]
            /\ clientHealthy' = [clientHealthy EXCEPT ![p] = TRUE]
            /\ requestCount' =
                 [q \in Clients |->
                    requestCount[q] - (IF q = p THEN 1 ELSE 0)
                                    - (IF q = chains[c].outer THEN 1 ELSE 0)]
    /\ aged' = [aged EXCEPT ![c] = FALSE]
    /\ UNCHANGED <<clients, capabilities, cooldown, roundRobinCounters, probing, engineVars, estVars, auxVars>>

\* A sleep of the same length after every failed attempt
ConstantBackoff(attempt) == RetryDelay

\* withRetry's delay after failed attempt number attempt (lines 421-424)
BackoffDelay(attempt) == Min(RetryDelay * 2 ^ (attempt - 1), MaxDelay)

\* The operation rejects: withRetry sleeps before the next attempt (lines
\* 418-427), or throws after the last one and executeRequest's catch runs
OperationFails(c) ==
    /\ chains[c].pc = "call"
    /\ IF chains[c].attempt < MaxRetries
       THEN /\ chains' = [chains EXCEPT ![c].pc = "sleep",
                                        ![c].delay = BackoffDelay(chains[c].attempt)]
            /\ UNCHANGED <<clientHealthy, consecutiveErrors, circuitBreakers, cooldown,
                           requestCount, roundRobinCounters, aged, weight>>
       ELSE IF chains[c].detached
       THEN /\ chains' = [chains EXCEPT ![c] = IdleChain]
            /\ UNCHANGED <<clientHealthy, consecutiveErrors, circuitBreakers, cooldown,
                           requestCount, roundRobinCounters, aged, weight>>
       ELSE RequestFailed(chains[c].client, chains[c].outer, c,
                          [chains EXCEPT ![c] = IdleChain])
    /\ UNCHANGED <<clients, capabilities, probing, engineVars, estVars, auxVars>>

\* withRetry's sleep ends: the next attempt calls the operation (line 415)
RetryWakes(c) ==
    /\ chains[c].pc = "sleep"
    /\ chains' = [chains EXCEPT ![c].pc = "call", ![c].attempt = @ + 1, ![c].delay = 0]
    /\ UNCHANGED <<clients, capabilities, clientHealthy, consecutiveErrors, circuitBreakers,
                   cooldown, requestCount, roundRobinCounters, probing, aged, weight,
                   engineVars, estVars, auxVars>>

\* withTimeout's timer wins the race (lines 437-443): executeRequest's catch
\* runs while the retry loop goes on with nobody awaiting it.  The failover
\* leg, if there is one, takes the lowest free slot.
RequestTimeout(c) ==
    LET free == {d \in ChainIds : chains[d].pc = "idle"} IN
    /\ chains[c].pc \in {"call", "sleep"}
    /\ ~chains[c].detached
    /\ aged[c]
    /\ free # {}
    /\ RequestFailed(chains[c].client, chains[c].outer, Lowest(free),
                     [chains EXCEPT ![c].detached = TRUE])
    /\ UNCHANGED <<clients, capabilities, probing, engineVars, estVars, auxVars>>

\* The requests in progress whose timeout has not run out
Young == {c \in ChainIds : chains[c].pc # "idle" /\ ~chains[c].detached /\ ~aged[c]}

\* 30 s pass: the breakers' retry times come closer and the requests in
\* progress reach their requestTimeout
CoordTick ==
    /\ (\E p \in Clients : cooldown[p] > 0) \/ Young # {}
    /\ cooldown' = [p \in Clients |-> Max(cooldown[p] - 1, 0)]
    /\ aged' = [c \in ChainIds |-> aged[c] \/ c \in Young]
    /\ UNCHANGED <<clients, capabilities, clientHealthy, consecutiveErrors, circuitBreakers,
                   requestCount, roundRobinCounters, chains, probing, weight, engineVars, estVars, auxVars>>

\* The health-check timer fires and performHealthChecks starts (lines
\* 575-585): one probe per client
HealthChecksStart ==
    /\ \A p \in Clients : ~probing[p]
    /\ clients # {}
    /\ probing' = [p \in Clients |-> p \in clients]
    /\ UNCHANGED <<clients, capabilities, clientHealthy, consecutiveErrors, circuitBreakers,
                   cooldown, requestCount, roundRobinCounters, chains, aged, weight,
                   engineVars, estVars, auxVars>>

\* checkClientHealth of p settles (lines 598-629); after the last probe of
\* the round performHealthChecks calls checkCircuitBreakers (line 589)
ProbeReturns(p, ok) ==
    /\ probing[p]
    /\ probing' = [probing EXCEPT ![p] = FALSE]
    /\ clientHealthy' = [clientHealthy EXCEPT ![p] = ok]
    /\ circuitBreakers' =
         IF \A q \in Clients \ {p} : ~probing[q]
         THEN [q \in Clients |-> BreakerAfterCheck(q)]
         ELSE circuitBreakers
    /\ UNCHANGED <<clients, capabilities, consecutiveErrors, cooldown, requestCount,
                   roundRobinCounters, chains, aged, weight, engineVars, estVars, auxVars>>

\* handleClientReconnected (lines 675-684): a client that initialized (the
\* handler is registered at line 142) emitted 'reconnected'
HandleClientReconnected(p) ==
    /\ p \in clients
    /\ ~clientHealthy[p] \/ consecutiveErrors[p] > 0
    /\ clientHealthy' = [clientHealthy EXCEPT ![p] = TRUE]
    /\ consecutiveErrors' = [consecutiveErrors EXCEPT ![p] = 0]
    /\ UNCHANGED <<clients, capabilities, circuitBreakers, cooldown, requestCount,
                   roundRobinCounters, chains, probing, aged, weight, engineVars, estVars, auxVars>>

CoordNext ==
    \/ \E cap \in Capabilities : RouteRequest(cap)
    \/ \E c \in ChainIds : OperationSucceeds(c)
    \/ \E c \in ChainIds : OperationFails(c)
    \/ \E c \in ChainIds : RetryWakes(c)
    \/ \E c \in ChainIds : RequestTimeout(c)
    \/ CoordTick
    \/ HealthChecksStart
    \/ \E p \in Clients, ok \in BOOLEAN : ProbeReturns(p, ok)
    \/ \E p \in Clients : HandleClientReconnected(p)

(***************************************************************************)
(* ProfitEstimator.estimateProfit.  Money is in millionths of a USD, the   *)
(* price difference, fees and margins in millionths of the volume, the     *)
(* volume and the liquidity in USD.                                        *)
(***************************************************************************)
MinProfitThreshold == 2500       \* config.minProfitThreshold, 0.25 %
MaxSlippage == 1000              \* config.maxSlippage, 0.1 %
ReserveBuffer == 100000          \* config.reserveBuffer, 10 %
TotalGasUnits == 500000          \* the sum of gasEstimates
EthPriceUsd == 2000              \* the fallback of calculateCosts
DefaultLiquidity == 1000000      \* the fallback of calculateSlippageImpact

\* flashLoanFees[provider] in basis points; Undefined for a name not in the table
FlashLoanFees(provider) ==
    CASE provider = "venus" -> 9
      [] provider = "aave" -> 9
      [] provider = "compound" -> 0
      [] OTHER -> Undefined

\* dexFees[dex] in basis points; Undefined for a name not in the table
DexFees(dex) ==
    CASE dex = "pancakeswap" -> 25
      [] dex = "biswap" -> 10
      [] dex = "quickswap" -> 30
      [] dex = "uniswap-v3" -> 5
      [] OTHER -> Undefined

\* !x of JavaScript for a table entry: undefined and 0 are both falsy
Falsy(x) == x = Undefined \/ x = 0

\* The opportunities estimateProfit is given.  A gas price is its value in
\* gwei and whether its decimal expansion goes on beyond nine fractional
\* digits (getCurrentGasPrices returns 5 + Math.random() * 15)
EstPriceDeltas == {0, 112000, 112899, 112900, 112901, 119900, 130000}
EstVolumes == {1000, 2000}
EstGasPrices == {[gwei |-> 5, extraDigits |-> FALSE], [gwei |-> 12, extraDigits |-> TRUE]}
EstProviders == {"venus", "compound", "dydx"}
EstDexes == {"biswap", "curve-v2"}
EstOpportunities ==
    [priceDelta : EstPriceDeltas, volume : EstVolumes, gasPrice : EstGasPrices,
     flashLoanProvider : EstProviders, dexA : {"pancakeswap"}, dexB : EstDexes,
     liquidityA : {0, 4000000}, liquidityB : {1000000}]

NoEstimate ==
    [profitable |-> FALSE, reason |-> "not called", netProfit |-> 0, timestamp |-> Undefined]

EstInit ==
    /\ estOpportunity = CHOOSE o \in EstOpportunities : TRUE
    /\ estResult = NoEstimate
    /\ estNow = 0

\* ProfitEstimator.validateOpportunity (lines 132-160)
EstValidateOpportunity(o) ==
    /\ ~(o.priceDelta <= 0 \/ o.volume <= 0 \/ o.gasPrice.gwei <= 0)
    /\ ~Falsy(FlashLoanFees(o.flashLoanProvider))
    /\ ~(Falsy(DexFees(o.dexA)) \/ Falsy(DexFees(o.dexB)))

\* ethers.parseUnits(gasPrice.toString(), 'gwei') (line 180) throws when the
\* string has more than nine fractional digits
ParseUnitsThrows(g) == g.extraDigits

\* calculateBaseProfit
CalculateBaseProfit(o) == o.priceDelta * o.volume

\* calculateCosts: gas (gwei * gas units * 1e-9 ETH at ethPriceUsd), flash
\* loan fee, both DEX fees, reserve buffer
CalculateCosts(o) ==
    o.gasPrice.gwei * (TotalGasUnits \div 1000) * EthPriceUsd
    + o.volume * FlashLoanFees(o.flashLoanProvider) * 100
    + o.volume * DexFees(o.dexA) * 100
    + o.volume * DexFees(o.dexB) * 100
    + o.volume * ReserveBuffer

\* x || fallback of JavaScript for a number
OrElse(x, fallback) == IF x = 0 THEN fallback ELSE x

\* calculateSlippageImpact
CalculateSlippageImpact(o) ==
    LET slippageA == (o.volume * 500000) \div OrElse(o.liquidityA, DefaultLiquidity)
        slippageB == (o.volume * 500000) \div OrElse(o.liquidityB, DefaultLiquidity)
    IN  Min(slippageA + slippageB, MaxSlippage) * o.volume

\* The net profit estimateProfit reports: base profit less costs less slippage
AdjustedNetProfit(o) ==
    CalculateBaseProfit(o) - CalculateCosts(o) - CalculateSlippageImpact(o)

\* The final test of estimateProfit (line 90): adjustedNetProfit / volume >=
\* minProfitThreshold
MeetsThreshold(net, volume) == net >= MinProfitThreshold * volume

\* ProfitEstimator.estimateProfit (lines 62-127) called at time now; only the
\* full result carries metadata.timestamp (line 104)
EstimateProfit(o, now) ==
    IF ~EstValidateOpportunity(o)
    THEN [profitable |-> FALSE, reason |-> "Invalid opportunity data", netProfit |-> 0,
          timestamp |-> Undefined]
    ELSE IF ParseUnitsThrows(o.gasPrice)
    THEN [profitable |-> FALSE, reason |-> "Calculation error", netProfit |-> 0,
          timestamp |-> Undefined]
    ELSE [profitable |-> MeetsThreshold(AdjustedNetProfit(o), o.volume), reason |-> "",
          netProfit |-> AdjustedNetProfit(o), timestamp |-> now]

\* SameChainArbitrage.analyzePair hands an opportunity to estimateProfit
\* (part_010 line 673)
Estimate(o) ==
    /\ estOpportunity' = o
    /\ estResult' = EstimateProfit(o, estNow)
    /\ UNCHANGED <<estNow, engineVars, coordVars, auxVars>>

\* Time passes between two calls of the estimator
EstTick ==
    /\ estNow < MaxEstNow
    /\ estNow' = estNow + 1
    /\ UNCHANGED <<estOpportunity, estResult, engineVars, coordVars, auxVars>>

EstNext ==
    \/ \E o \in EstOpportunities : Estimate(o)
    \/ EstTick

(***************************************************************************)
(* CoinGeckoMCPClient.getCurrentPrice and its cache (part_007)             *)
(***************************************************************************)
CacheTimeout == 3                \* cacheTimeout, 30 s in ticks

CacheKeys == {"bitcoin-usd", "ethereum-usd"}
ProviderPrices == {100, 101}

\* No entry under a key of priceCache
NoEntry == [price |-> Undefined, timestamp |-> Undefined]

\* A getCurrentPrice call that threw, and no call settled yet
Unavailable == [key |-> "none", price |-> Undefined, obtained |-> 0, returned |-> 0]

PriceInit ==
    /\ priceNow = 0
    /\ priceCache = [k \in CacheKeys |-> NoEntry]
    /\ fetching = [k \in CacheKeys |-> 0]
    /\ lastPrice = Unavailable

\* A cache that returns whatever it holds, whatever its age
GetCachedPriceNoExpiry(k) ==
    IF priceCache[k] # NoEntry THEN priceCache[k].price ELSE Undefined

\* getCachedPrice (lines 376-384): the price under key k if it is younger
\* than cacheTimeout, otherwise null (Undefined here)
GetCachedPrice(k) ==
    IF priceCache[k] # NoEntry /\ priceNow - priceCache[k].timestamp < CacheTimeout
    THEN priceCache[k].price
    ELSE Undefined

\* getCurrentPrice returns from the cache (lines 92-99)
PriceFromCache(k) ==
    /\ GetCachedPrice(k) # Undefined
    /\ lastPrice' = [key |-> k, price |-> GetCachedPrice(k),
                     obtained |-> priceCache[k].timestamp, returned |-> priceNow]
    /\ UNCHANGED <<priceNow, priceCache, fetching, engineVars, coordVars, estVars,
                   callbackVars, selVars, scanVars, limitVars>>

\* getCurrentPrice misses the cache and awaits the provider (lines 101-110)
PriceFetchBegins(k) ==
    /\ GetCachedPrice(k) = Undefined
    /\ fetching[k] < MaxFetches
    /\ fetching' = [fetching EXCEPT ![k] = @ + 1]
    /\ UNCHANGED <<priceNow, priceCache, lastPrice, engineVars, coordVars, estVars,
                   callbackVars, selVars, scanVars, limitVars>>

\* The provider answers with price p: updatePriceCache (lines 391-396) and
\* return (lines 112-128)
PriceFetchReturns(k, p) ==
    /\ fetching[k] > 0
    /\ fetching' = [fetching EXCEPT ![k] = @ - 1]
    /\ priceCache' = [priceCache EXCEPT ![k] = [price |-> p, timestamp |-> priceNow]]
    /\ lastPrice' = [key |-> k, price |-> p, obtained |-> priceNow, returned |-> priceNow]
    /\ UNCHANGED <<priceNow, engineVars, coordVars, estVars,
                   callbackVars, selVars, scanVars, limitVars>>

\* The provider call fails and getCurrentPrice throws (lines 130-138)
PriceFetchFails(k) ==
    /\ fetching[k] > 0
    /\ fetching' = [fetching EXCEPT ![k] = @ - 1]
    /\ lastPrice' = Unavailable
    /\ UNCHANGED <<priceNow, priceCache, engineVars, coordVars, estVars,
                   callbackVars, selVars, scanVars, limitVars>>

\* 10 s pass
PriceTick ==
    /\ priceNow < MaxPriceNow
    /\ priceNow' = priceNow + 1
    /\ UNCHANGED <<priceCache, fetching, lastPrice, engineVars, coordVars, estVars,
                   callbackVars, selVars, scanVars, limitVars>>

PriceNext ==
    \/ \E k \in CacheKeys : PriceFromCache(k)
    \/ \E k \in CacheKeys : PriceFetchBegins(k)
    \/ \E k \in CacheKeys, p \in ProviderPrices : PriceFetchReturns(k, p)
    \/ \E k \in CacheKeys : PriceFetchFails(k)
    \/ PriceTick

(***************************************************************************)
(* The flash-loan callback.  Amounts are in units of the borrowed asset.   *)
(***************************************************************************)
\* The flash loans executed: the amount borrowed, the fee the provider
\* charges, the minimum profit in the parameters, the balance of the asset
\* the executor held before, and what the second swap paid out
CallbackKinds == {"contract", "callback"}
CallbackCalls ==
    [kind : CallbackKinds, amount : {100, 101}, fee : {0, 1}, minProfit : {0, 1, 2},
     own : {0, 5}, out : {45, 50, 51, 99, 100, 101, 102, 103}]

NoCall == [kind |-> "none", amount |-> 0, fee |-> 0, minProfit |-> 0, own |-> 0, out |-> 0]
NoCallResult == [completed |-> FALSE, balance |-> 0]

CallbackInit ==
    /\ cbCall = NoCall
    /\ cbResult = NoCallResult

\* FlashLoanExecutorBSC._executeArbitrage (lines 164-184): half of the loan
\* is swapped to tokenB and back; the balance of the asset afterwards
ContractBalance(c) == c.own + c.amount - (c.amount \div 2) + c.out

\* FlashLoanExecutorBSC._executeFlashLoan (lines 144-159): the loan is repaid
\* with amount, which needs that much of the asset; nothing else is required
ContractCompletes(c) == ContractBalance(c) >= c.amount

\* FlashLoanCallbacks.executeArbitrage (part_009 lines 1249-1313): the whole
\* loan is swapped and swapped back; the balance of the asset afterwards
CallbackBalance(c) == c.own + c.out

\* venusFlashLoanCallback (part_009 lines 1122-1178) with executeArbitrage:
\* the profit test of line 1288 and the repayment test of line 1150
CallbackCompletes(c) ==
    /\ ~(c.out - c.amount < c.minProfit)
    /\ ~(c.out < c.amount + c.fee)

\* The premium the run charges: the contract repays the bare amount
Premium(c) == IF c.kind = "contract" THEN 0 ELSE c.fee

\* FlashLoanExecutorBSC.executeFlashLoan (lines 110-139) runs for call c
ContractExecuteFlashLoan(c) ==
    /\ c.kind = "contract"
    /\ cbCall' = c
    /\ cbResult' = [completed |-> ContractCompletes(c), balance |-> ContractBalance(c)]
    /\ UNCHANGED <<engineVars, coordVars, estVars, priceVars, selVars, scanVars, limitVars>>

\* FlashLoanCallbacks.venusFlashLoanCallback runs for call c
VenusFlashLoanCallback(c) ==
    /\ c.kind = "callback"
    /\ cbCall' = c
    /\ cbResult' = [completed |-> CallbackCompletes(c), balance |-> CallbackBalance(c)]
    /\ UNCHANGED <<engineVars, coordVars, estVars, priceVars, selVars, scanVars, limitVars>>

CallbackNext ==
    \/ \E c \in CallbackCalls : ContractExecuteFlashLoan(c)
    \/ \E c \in CallbackCalls : VenusFlashLoanCallback(c)

(***************************************************************************)
(* Client selection on the shipped configuration                           *)
(***************************************************************************)

\* clientConfigs (mcp-coordinator.js lines 46-68), in the order of the object
ConfiguredOrder == <<"coingecko", "web3", "context7">>
ConfiguredClients == {ConfiguredOrder[k] : k \in 1..Len(ConfiguredOrder)}

\* clientConfigs[name].capabilities
ConfiguredCapabilities ==
    [p \in ConfiguredClients |->
        CASE p = "coingecko" -> {"pricing", "market-data", "trending",
                                 "arbitrage-opportunities"}
          [] p = "web3"      -> {"blockchain", "tokens", "pools", "bridges", "flash-loans"}
          [] p = "context7"  -> {"code-review", "quality-assurance", "best-practices"}]

AllCapabilities == UNION {ConfiguredCapabilities[p] : p \in ConfiguredClients}

\* clientConfigs[name].priority
ConfiguredPriority ==
    [p \in ConfiguredClients |->
        CASE p = "coingecko" -> "high"
          [] p = "web3"      -> "critical"
          [] p = "context7"  -> "medium"]

\* The lists of client names a selection may be handed: no name twice
NameLists ==
    {l \in UNION {[1..n -> ConfiguredClients] : n \in 1..Len(ConfiguredOrder)} :
        \A i, j \in 1..Len(l) : l[i] = l[j] => i = j}

NoSelection == [strategy |-> "none", capability |-> "none", available |-> <<>>,
                chosen |-> "none"]

\* The constructor leaves roundRobinCounters empty (get(key) || 0 reads 0);
\* the clients of set up are initialized and healthy
SelInitWith(up) ==
    /\ selUp = up
    /\ selCounters = [l \in NameLists |-> 0]
    /\ selLast = NoSelection

SelInit == SelInitWith(ConfiguredClients)

\* getClientsForCapability (lines 225-240) on the shipped capabilities
AvailableFor(cap) ==
    SelectSeq2(ConfiguredOrder,
               {p \in ConfiguredClients : cap \in ConfiguredCapabilities[p] /\ p \in selUp})

\* selectByRoundRobin (lines 267-273): the counter is kept under
\* availableClients.join(','), that is, per list of names
RoundRobinChoice(available) ==
    available[(selCounters[available] % Len(available)) + 1]

\* routeRequest (lines 206-220) under the configured round-robin policy
RouteRoundRobin(cap) ==
    LET available == AvailableFor(cap) IN
    /\ available # <<>>
    /\ selCounters[available] < MaxSelections
    /\ selLast' = [strategy |-> "round-robin", capability |-> cap,
                   available |-> available, chosen |-> RoundRobinChoice(available)]
    /\ selCounters' = [selCounters EXCEPT ![available] = @ + 1]
    /\ UNCHANGED <<selUp, engineVars, coordVars, estVars, priceVars, callbackVars,
                   scanVars, limitVars>>

\* priorityOrder of selectByPriority (line 316)
PriorityOrder(tier) ==
    CASE tier = "critical" -> 0
      [] tier = "high"     -> 1
      [] tier = "medium"   -> 2
      [] tier = "low"      -> 3

\* priorityOrder[clientConfigs[name].priority] || 999 (lines 319, 322)
PriorityOf(p) == OrElse(PriorityOrder(ConfiguredPriority[p]), 999)

\* The loop of selectByPriority (lines 321-327) over the rest of the list
RECURSIVE PriorityScan(_, _)
PriorityScan(rest, highest) ==
    IF rest = <<>> THEN highest
    ELSE PriorityScan(Tail(rest),
                      IF PriorityOf(Head(rest)) < PriorityOf(highest)
                      THEN Head(rest) ELSE highest)

\* selectByPriority (lines 315-330)
SelectByPriority(available) == PriorityScan(available, available[1])

\* selectClient with the priority policy (line 256) on a list of clients
SelectPriority(available) ==
    /\ selLast' = [strategy |-> "priority", capability |-> "none",
                   available |-> available, chosen |-> SelectByPriority(available)]
    /\ UNCHANGED <<selUp, selCounters, engineVars, coordVars, estVars, priceVars,
                   callbackVars, scanVars, limitVars>>

SelNext ==
    \/ \E cap \in AllCapabilities : RouteRoundRobin(cap)
    \/ \E available \in NameLists : SelectPriority(available)

(***************************************************************************)
(* The scanner.  Prices are in thousandths of a dollar, volumes and trade  *)
(* sizes in dollars, gas prices in gwei, confidence in thousandths.        *)
(***************************************************************************)

ScanMaxGasPriceGwei == 50           \* config.maxGasPriceGwei of the scanner
ScanMaxTradeSize == 50000           \* config.maxTradeSize of the scanner
EstimatorMaxGasPriceGwei == 50      \* config.maxGasPriceGwei of its ProfitEstimator
ConfidenceLiquidity == 1000000      \* liquidityA || 1000000 of calculateConfidence
MinExecConfidence == 500            \* executeOpportunities skips confidence < 0.5

\* config.chains of the scanner
ScanChains == <<"bsc", "polygon">>

\* Two of the targetPairs (lines 385-426), in their order
TargetPairs ==
    << [id |-> "usdt-usdc", chains |-> {"bsc", "polygon"}, minVolume |-> 10000000,
        flashLoanProvider |-> "venus"],
       [id |-> "btc-wbtc",  chains |-> {"polygon"},        minVolume |-> 2000000,
        flashLoanProvider |-> "aave"] >>

\* FlashLoanProviderConfig.providers (flash-loan-providers.js lines 14-75):
\* the chain, the tokens and the largest loan of each provider
FlashLoanProviders ==
    [venus    |-> [chain |-> "bsc",      supportedTokens |-> {"USDT", "USDC", "BUSD", "DAI"},
                   maxLoanAmount |-> 10000000],
     aave     |-> [chain |-> "polygon",  supportedTokens |-> {"USDT", "USDC", "DAI", "WETH"},
                   maxLoanAmount |-> 50000000],
     compound |-> [chain |-> "ethereum", supportedTokens |-> {"USDT", "USDC", "DAI", "WETH"},
                   maxLoanAmount |-> 100000000]]

\* The tokens of the target pairs (pair.symbol), one of which is borrowed
PairTokens(id) == IF id = "usdt-usdc" THEN {"USDT", "USDC"} ELSE {"BTC", "WBTC"}

\* marketData[token]: missing, or a price and a 24 h volume that may be undefined
NoTokenData == [present |-> FALSE, current_price |-> Undefined, volume_24h |-> Undefined]

ScanVolumes == {Undefined, 3000000, 12000000}

TokenAData(k) ==
    IF k = 1
    THEN {NoTokenData} \cup
         [present : {TRUE}, current_price : {1000, 1002}, volume_24h : {3000000, 12000000}]
    ELSE [present : {TRUE}, current_price : {60030000, 60090000, 60150000},
          volume_24h : ScanVolumes]

TokenBData(k) ==
    [present |-> TRUE,
     current_price |-> IF k = 1 THEN 1000 ELSE 60000000,
     volume_24h |-> 12000000]

\* What estimateProfit answers for an opportunity: whether the net profit
\* reaches the threshold, and the net profit
Verdicts ==
    {[profitable |-> FALSE, netProfit |-> 0]} \cup [profitable : {TRUE}, netProfit : {10, 20}]

\* What getCurrentGasPrices may report: bsc 5-20 gwei, polygon 30-80 gwei
GasPriceReports == [bsc : {20}, polygon : {ScanMaxGasPriceGwei, 60}]

NoOpportunity == [pair |-> "none"]

\* Math.min of two volumes: NaN (Undefined here) when either is undefined
MinVolumeOf(a, b) == IF a = Undefined \/ b = Undefined THEN Undefined ELSE Min(a, b)

\* A trade of the whole 24 h volume
WholeVolumeTradeSize(minVolume) == minVolume

\* calculateOptimalTradeSize: 1% of the daily volume, capped by maxTradeSize
ScanOptimalTradeSize(minVolume) ==
    IF minVolume = Undefined THEN Undefined
    ELSE Min(minVolume \div 100, ScanMaxTradeSize)

\* calculateConfidence of ProfitEstimator; a comparison with NaN is false
CalculateConfidence(o) ==
    LET afterGas == IF o.gasPrice > EstimatorMaxGasPriceGwei THEN 800 ELSE 1000
        liqA == IF Falsy(o.liquidityA) THEN ConfidenceLiquidity ELSE o.liquidityA
        liqB == IF Falsy(o.liquidityB) THEN ConfidenceLiquidity ELSE o.liquidityB
        afterLiquidity ==
            IF o.volume # Undefined /\ Min(liqA, liqB) < o.volume * 10
            THEN (afterGas * 6) \div 10 ELSE afterGas
        afterMargin ==
            IF o.volume # Undefined /\ o.priceDelta < 5 * o.volume
            THEN (afterLiquidity * 7) \div 10 ELSE afterLiquidity
    IN Max(afterMargin, 100)

\* analyzePair for pair number k on a chain: the opportunity it returns, or null
AnalyzePair(k, chain, tokenA, tokenB, gasPrice, verdict) ==
    LET pair == TargetPairs[k]
        minVolume == MinVolumeOf(tokenA.volume_24h, tokenB.volume_24h)
        priceA == tokenA.current_price
        priceB == tokenB.current_price
        priceDelta == IF priceA > priceB THEN priceA - priceB ELSE priceB - priceA
        opportunity ==
            [pair |-> pair.id, chain |-> chain, priceDelta |-> priceDelta,
             volume |-> ScanOptimalTradeSize(minVolume), gasPrice |-> gasPrice,
             flashLoanProvider |-> pair.flashLoanProvider,
             liquidityA |-> tokenA.volume_24h, liquidityB |-> tokenB.volume_24h]
        \* estimateProfit: a NaN volume makes the net profit NaN, and
        \* NaN >= threshold is false
        profitEstimation ==
            [profitable |-> verdict.profitable /\ opportunity.volume # Undefined,
             netProfit |-> verdict.netProfit,
             confidence |-> CalculateConfidence(opportunity)]
    IN  IF ~tokenA.present \/ ~tokenB.present THEN NoOpportunity
        ELSE IF minVolume # Undefined /\ minVolume < pair.minVolume THEN NoOpportunity
        ELSE IF priceDelta * 2000 < priceA + priceB THEN NoOpportunity
        ELSE IF profitEstimation.profitable
        THEN [pair |-> opportunity.pair, chain |-> opportunity.chain,
              flashLoanProvider |-> opportunity.flashLoanProvider,
              priceDelta |-> opportunity.priceDelta,
              volume |-> opportunity.volume, gasPrice |-> opportunity.gasPrice,
              liquidityA |-> opportunity.liquidityA,
              liquidityB |-> opportunity.liquidityB,
              profitable |-> profitEstimation.profitable,
              estimatedProfit |-> profitEstimation.netProfit,
              confidence |-> profitEstimation.confidence]
        ELSE NoOpportunity

\* Array.prototype.sort with (a, b) => b.estimatedProfit - a.estimatedProfit:
\* largest first, equals in their order
RECURSIVE InsertByProfit(_, _)
InsertByProfit(s, o) ==
    IF s = <<>> THEN <<o>>
    ELSE IF Head(s).estimatedProfit >= o.estimatedProfit
         THEN <<Head(s)>> \o InsertByProfit(Tail(s), o)
         ELSE <<o>> \o s

\* detectedOpportunities after the loop (results in the order of the loop,
\* null for a pair skipped or rejected) and the sort
RECURSIVE Detected(_)
Detected(results) ==
    IF results = <<>> THEN <<>>
    ELSE LET last == results[Len(results)]
             before == Detected(SubSeq(results, 1, Len(results) - 1))
         IN  IF last = NoOpportunity THEN before ELSE InsertByProfit(before, last)

\* executeOpportunities on the top 3: how many reach executeArbitrage
ExecutedOf(detected) ==
    Cardinality({i \in 1..Min(Len(detected), 3) :
                    ~(detected[i].confidence < MinExecConfidence)})

ScanInitWith(simulation) ==
    /\ scanSimulation = simulation
    /\ opportunities = <<>>
    /\ opportunitiesDetected = 0
    /\ opportunitiesExecuted = 0

ScanInit == ScanInitWith(FALSE)

\* detectOpportunities: gasPrices as getCurrentGasPrices reports them, the
\* market data holding tokenA1 for the first pair and tokenA2 for the second,
\* verdict[k][c] what the estimator answers for pair k on chain ScanChains[c]
DetectOpportunities(gasPrices, tokenA1, tokenA2, verdict) ==
    LET viable(chain) == gasPrices[chain] <= ScanMaxGasPriceGwei
        tokenA(k) == IF k = 1 THEN tokenA1 ELSE tokenA2
        analysis(k, c) ==
            IF ScanChains[c] \in TargetPairs[k].chains /\ viable(ScanChains[c])
            THEN AnalyzePair(k, ScanChains[c], tokenA(k), TokenBData(k),
                             gasPrices[ScanChains[c]], verdict[k][c])
            ELSE NoOpportunity
        detected == Detected(<<analysis(1, 1), analysis(1, 2),
                               analysis(2, 1), analysis(2, 2)>>)
    IN
    /\ \E c \in 1..Len(ScanChains) : viable(ScanChains[c])
    /\ opportunitiesDetected + Len(detected) <= MaxDetected
    /\ opportunities' = detected
    /\ opportunitiesDetected' = opportunitiesDetected + Len(detected)
    /\ opportunitiesExecuted' =
           IF scanSimulation
           THEN opportunitiesExecuted + ExecutedOf(detected)
           ELSE opportunitiesExecuted
    /\ UNCHANGED <<scanSimulation, engineVars, coordVars, estVars, priceVars,
                   callbackVars, selVars, limitVars>>

ScanNext ==
    \E gasPrices \in GasPriceReports, tokenA1 \in TokenAData(1), tokenA2 \in TokenAData(2),
       v1 \in Verdicts, v2 \in Verdicts, v3 \in Verdicts :
        DetectOpportunities(gasPrices, tokenA1, tokenA2, <<<<v1, v2>>, <<v1, v3>>>>)

(***************************************************************************)
(* The rate limiter of the price clients                                   *)
(***************************************************************************)
\* rateLimiter.maxRequests of EnhancedCoinGeckoClient (part_004 line 23);
\* CoinGeckoMCPClient runs the same checkRateLimit with 100 requests an hour
RateLimitMaxRequests == 30

\* rateLimiter.resetPeriod (part_004 line 24): 60000 ms, in ticks of 30 s
RateLimitResetPeriod == 2

LimitTicks == 0 .. MaxLimitNow

\* The constructor (part_004 lines 20-25): lastReset is Date.now()
LimitInit ==
    /\ limitNow = 0
    /\ rateLimiter = [requests |-> 0, lastReset |-> 0]
    /\ sentAt = [t \in LimitTicks |-> 0]
    /\ limitLast = "none"

\* checkRateLimit (part_004 lines 819-833, part_007 lines 66-80) at time now
\* on the limiter rl: the limiter it leaves and whether it threw
CheckRateLimit(now, rl) ==
    LET afterReset == IF now - rl.lastReset >= RateLimitResetPeriod
                      THEN [requests |-> 0, lastReset |-> now]
                      ELSE rl
    IN  IF afterReset.requests >= RateLimitMaxRequests
        THEN [limiter |-> afterReset, threw |-> TRUE]
        ELSE [limiter |-> [afterReset EXCEPT !.requests = @ + 1], threw |-> FALSE]

\* getCurrentPrice past its cache (part_004 lines 236-243), and likewise
\* getMultipleTokenPrices, getTopGainersLosers and getHistoricalPrices:
\* checkRateLimit, then mcpCall unless it threw
LimitedRequest ==
    LET checked == CheckRateLimit(limitNow, rateLimiter) IN
    /\ rateLimiter' = checked.limiter
    /\ IF checked.threw
       THEN /\ limitLast' = "rejected"
            /\ UNCHANGED sentAt
       ELSE /\ limitLast' = "sent"
            /\ sentAt' = [sentAt EXCEPT ![limitNow] = @ + 1]
    /\ UNCHANGED <<limitNow, engineVars, coordVars, estVars, priceVars, callbackVars,
                   selVars, scanVars>>

\* 30 s pass
LimitTick ==
    /\ limitNow < MaxLimitNow
    /\ limitNow' = limitNow + 1
    /\ UNCHANGED <<rateLimiter, sentAt, limitLast, engineVars, coordVars, estVars,
                   priceVars, callbackVars, selVars, scanVars>>

LimitNext == LimitedRequest \/ LimitTick

AuxInit == PriceInit /\ CallbackInit /\ SelInit /\ ScanInit /\ LimitInit

\* Every client initialized; the simulation switch as the configuration sets it
Init ==
    EngineInit /\ simulationMode \in BOOLEAN /\ CoordInit(Clients) /\ EstInit /\ AuxInit

\* The web3 client failed to initialize; live mode
InitOneClient ==
    /\ EngineInit /\ simulationMode = FALSE /\ CoordInit({"coingecko"}) /\ EstInit
    /\ AuxInit

\* The engine in live mode, every client initialized
InitLive == Init /\ simulationMode = FALSE

vars == <<engineVars, coordVars, estVars, auxVars>>

SpecEngine == Init /\ [][EngineNext]_vars

\* The scans of the engine alone, over the wider set of opportunities
RankNext ==
    \/ Start
    \/ ScanBegin
    \/ ScanDeliverWide

SpecRank == InitLive /\ [][RankNext]_vars

SpecCoord == InitOneClient /\ [][CoordNext]_vars

\* The capabilities of the failover scenario: both providers offer pricing
ScenarioCapabilities == [p \in Clients |-> {"pricing"}]

\* The two providers of the failover scenario
ProviderP1 == "coingecko"
ProviderP2 == "web3"

\* The coordinator of the failover scenario after initialize(): both clients
\* initialized
InitTwoProviders ==
    /\ EngineInit
    /\ simulationMode = FALSE
    /\ CoordInitWith(Clients, ScenarioCapabilities)
    /\ EstInit
    /\ AuxInit

\* Scenario "provider failover": every call to P1 outlasts requestTimeout
\* (and rejects at some time after the coordinator gave up on it), every
\* call to P2 and every probe of P2 succeeds, probes of P1 pass or fail
S3Next ==
    \/ RouteRequest("pricing")
    \/ \E c \in ChainIds : chains[c].client = ProviderP1 /\ RequestTimeout(c)
    \/ \E c \in ChainIds :
          chains[c].client = ProviderP1 /\ chains[c].detached /\ OperationFails(c)
    \/ \E c \in ChainIds : RetryWakes(c)
    \/ \E c \in ChainIds : chains[c].client = ProviderP2 /\ OperationSucceeds(c)
    \/ CoordTick
    \/ HealthChecksStart
    \/ \E ok \in BOOLEAN : ProbeReturns(ProviderP1, ok)
    \/ ProbeReturns(ProviderP2, TRUE)

SpecS3 == InitTwoProviders /\ [][S3Next]_vars

\* Requests for pricing when every call to P1 outlasts requestTimeout and a
\* call to P2 succeeds or fails
FailoverNext ==
    \/ RouteRequest("pricing")
    \/ \E c \in ChainIds : chains[c].client = ProviderP1 /\ RequestTimeout(c)
    \/ \E c \in ChainIds :
          (chains[c].client = ProviderP2 \/ chains[c].detached) /\ OperationFails(c)
    \/ \E c \in ChainIds : RetryWakes(c)
    \/ \E c \in ChainIds : chains[c].client = ProviderP2 /\ OperationSucceeds(c)
    \/ CoordTick

SpecFailover == InitTwoProviders /\ [][FailoverNext]_vars

\* Two providers that share a capability other than the one requested: the
\* first offers pricing and market-data, the second market-data only
OverlapCapabilities ==
    [p \in Clients |-> IF p = ProviderP1 THEN {"pricing", "market-data"}
                       ELSE {"market-data"}]

InitOverlap ==
    /\ EngineInit /\ simulationMode = FALSE
    /\ CoordInitWith(Clients, OverlapCapabilities) /\ EstInit /\ AuxInit

SpecOverlap == InitOverlap /\ [][FailoverNext]_vars

\* The coordinator whose callers await one routeRequest at a time (retry
\* loops that a timeout detached may still run beside it)
CoordSerialNext ==
    \/ /\ \A c \in ChainIds : chains[c].pc = "idle" \/ chains[c].detached
       /\ \E cap \in Capabilities : RouteRequest(cap)
    \/ \E c \in ChainIds : OperationSucceeds(c)
    \/ \E c \in ChainIds : OperationFails(c)
    \/ \E c \in ChainIds : RetryWakes(c)
    \/ \E c \in ChainIds : RequestTimeout(c)
    \/ CoordTick
    \/ HealthChecksStart
    \/ \E p \in Clients, ok \in BOOLEAN : ProbeReturns(p, ok)
    \/ \E p \in Clients : HandleClientReconnected(p)

\* That coordinator as time passes (CoordTick), with its health-check timer
\* firing every healthCheckInterval (setInterval, line 566) and every
\* healthCheck() of a client settling
SpecCoordLive ==
    /\ InitOneClient
    /\ [][CoordSerialNext]_vars
    /\ WF_vars(CoordTick)
    /\ WF_vars(HealthChecksStart)
    /\ \A p \in Clients : WF_vars(\E ok \in BOOLEAN : ProbeReturns(p, ok))

SpecEst == Init /\ [][EstNext]_vars

SpecPrice == InitLive /\ [][PriceNext]_vars

SpecCallback == InitLive /\ [][CallbackNext]_vars

\* The selection policies, with any set of the configured clients up
InitSelect ==
    /\ EngineInit /\ simulationMode = FALSE /\ CoordInit(Clients) /\ EstInit
    /\ PriceInit /\ CallbackInit /\ ScanInit /\ LimitInit
    /\ \E up \in SUBSET ConfiguredClients : SelInitWith(up)

SpecSelect == InitSelect /\ [][SelNext]_vars

\* The scanner, in simulation mode or not
InitScan ==
    /\ EngineInit /\ simulationMode = FALSE /\ CoordInit(Clients) /\ EstInit
    /\ PriceInit /\ CallbackInit /\ SelInit /\ LimitInit
    /\ \E simulation \in BOOLEAN : ScanInitWith(simulation)

SpecScan == InitScan /\ [][ScanNext]_vars

\* The rate limiter alone, from its construction
SpecLimit == InitLive /\ [][LimitNext]_vars

(***************************************************************************)
(* Properties of the engine                                                *)
(***************************************************************************)
\* The flash-loan fee of execution e, as analyzeTransactionResult charges it:
\* amount * feeRate, known from the opportunity before anything is sent
LoanFee(e) == (Amount(execOpp[e]) * AllOpps[execOpp[e]].feeRate) \div 100

\* Net profit predicted for execution e before its trade: the expected
\* profit less the gas cost, the bridge cost and the flash-loan fee
PredictedNet(e) == ExpectedProfit(execOpp[e]) - execCosts[e] - LoanFee(e)

\* C1: every transaction that has been submitted and awaits inclusion belongs
\* to an opportunity whose net profit, predicted before the trade from the
\* expected profit and the gas, bridge and flash-loan costs, is not negative.
C1_NoLossPredictedSubmission ==
    \A e \in ExecIds : execState[e] = "Pending" => PredictedNet(e) >= 0

\* C1 witness: a transaction is pending although the flash-loan fee of its
\* opportunity is larger than the expected profit
C1_Witness ==
    \E e \in ExecIds :
        /\ execState[e] = "Pending"
        /\ ExpectedProfit(execOpp[e]) - execCosts[e] >= 0
        /\ PredictedNet(e) < 0

\* Executions of chain c whose transaction is being submitted or awaits inclusion
InFlightOn(c) ==
    {e \in ExecIds : execState[e] \in InFlight /\ AllOpps[execOpp[e]].chain = c}

\* C5: at every moment and for every chain at most one execution is in flight.
C5_OneInFlightPerChain ==
    \A c \in Chains : Cardinality(InFlightOn(c)) <= 1

\* C5 witness: an execution is in flight while stop() waits and an
\* opportunity of the same chain is queued behind it
C5_Witness ==
    \E e \in ExecIds :
        /\ execState[e] = "Pending"
        /\ stopWaiters > 0
        /\ executionQueue # <<>>
        /\ AllOpps[Head(executionQueue)].chain = AllOpps[execOpp[e]].chain

\* Position of a state in the order Created, Admitting, Building, Simulating,
\* Submitting, Pending, terminal
StateRank(s) ==
    CASE s = "None" -> 0
      [] s = "Created" -> 1
      [] s = "Admitting" -> 2
      [] s = "Building" -> 3
      [] s = "Simulating" -> 4
      [] s = "Submitting" -> 5
      [] s = "Pending" -> 6
      [] s \in Terminal -> 7

\* C6: every step leaves each execution where it is or moves it forward; an
\* execution becomes Abandoned only from a state before Pending, and a
\* Succeeded, Reverted or Abandoned execution never changes state again.
C6_MonotoneLifecycle ==
    [][\A e \in ExecIds :
          /\ StateRank(execState'[e]) >= StateRank(execState[e])
          /\ execState[e] \in Terminal => execState'[e] = execState[e]
          /\ (execState'[e] = "Abandoned" /\ execState[e] # "Abandoned")
                => StateRank(execState[e]) < 6]_vars

\* C6 witness: one execution has succeeded and a later one was abandoned
\* when its submission failed
C6_Witness ==
    /\ execState[1] = "Succeeded"
    /\ execState[2] = "Abandoned"
    /\ reported[2] = "executionError"

\* C7: an execution is reported successful only if its receipt status is
\* success and its realized margin (profit less fees) is not negative.
C7_SuccessImpliesMargin ==
    \A e \in ExecIds :
        reported[e] = "executionSuccess" =>
            /\ execResult[e].status = 1
            /\ execResult[e].profit >= 0

\* C7 witness: an execution reported successful whose realized profit is negative
C7_Witness ==
    \E e \in ExecIds :
        /\ reported[e] = "executionSuccess"
        /\ execState[e] = "Succeeded"
        /\ execResult[e].profit < 0

\* The pending deadline the specification gives: 90 s, in ticks
PendingDeadline == 3

\* C8: an execution waiting for inclusion stops waiting once the pending
\* deadline has passed.
C8_PendingDeadlineKept ==
    \A e \in ExecIds : execState[e] = "Pending" => waited[e] <= PendingDeadline

\* C8 witness: an execution still pending after the deadline
C8_Witness ==
    \E e \in ExecIds : execState[e] = "Pending" /\ waited[e] > PendingDeadline

\* The queue capacity N of the specification's scenario
QueueCapacity == 2

\* C9: the execution queue never holds more than N opportunities.
C9_QueueWithinCapacity == Len(executionQueue) <= QueueCapacity

\* C9 witness: the queue holds more than N opportunities after a scan pushed
\* its ranked opportunities
C9_Witness == Len(executionQueue) > QueueCapacity

(***************************************************************************)
(* Properties of the coordinator                                           *)
(***************************************************************************)
\* This step calls the operation of client p for chain c: the first call of
\* a request or of a failover leg, or a retry
DispatchedTo(c, p) ==
    /\ chains'[c].pc = "call"
    /\ chains'[c].client = p
    /\ \/ chains[c].pc # "call"
       \/ chains[c].client # p
       \/ chains[c].attempt # chains'[c].attempt

\* C2: from the moment the breaker of P opens until its cooldown has run out
\* no call is dispatched to P and the breaker is not closed.
C2_BreakerHoldsDuringCooldown ==
    [][\A p \in Clients :
          cooldown[p] > 0 =>
              /\ circuitBreakers'[p].isOpen
              /\ \A c \in ChainIds : ~DispatchedTo(c, p)]_vars

\* C3: while the breaker of P is open and its next-retry time has not come,
\* no caller reaches P, a caller between two retry attempts included.
C3_NoCallerReachesOpenBreaker ==
    [][\A p \in Clients, c \in ChainIds :
          (circuitBreakers[p].isOpen /\ cooldown[p] > 0) => ~DispatchedTo(c, p)]_vars

\* C4: a client marked unhealthy becomes selectable again only in a step in
\* which a health probe of that client succeeds.
C4_OnlyProbeRestoresHealth ==
    [][\A p \in Clients :
          (~clientHealthy[p] /\ clientHealthy'[p]) => (probing[p] /\ ~probing'[p])]_vars

(***************************************************************************)
(* Properties of the estimator                                             *)
(***************************************************************************)
\* The opportunity names a flash-loan provider and DEXes the estimator has
\* fees for, and its numbers are positive
HasNetMargin(o) ==
    /\ o.priceDelta > 0
    /\ FlashLoanFees(o.flashLoanProvider) # Undefined
    /\ DexFees(o.dexA) # Undefined
    /\ DexFees(o.dexB) # Undefined

\* Net profit divided by trade size is at least the minimum margin.  A gas
\* price with digits beyond the ninth is a little above the value counted.
NetMarginAtLeastMinimum(o) ==
    IF o.gasPrice.extraDigits
    THEN AdjustedNetProfit(o) > MinProfitThreshold * o.volume
    ELSE AdjustedNetProfit(o) >= MinProfitThreshold * o.volume

\* C10: the estimator marks an opportunity profitable exactly when its net
\* profit divided by the trade size is at least the minimum margin.
C10_ProfitableIffMargin ==
    (estResult # NoEstimate /\ HasNetMargin(estOpportunity)) =>
        (estResult.profitable <=> NetMarginAtLeastMinimum(estOpportunity))

\* C10 witness: an opportunity with a zero-fee provider and a net margin
\* above the minimum that the estimator turned down
C10_Witness ==
    /\ estResult # NoEstimate
    /\ estOpportunity.flashLoanProvider = "compound"
    /\ ~estOpportunity.gasPrice.extraDigits
    /\ NetMarginAtLeastMinimum(estOpportunity)
    /\ ~estResult.profitable

\* C11: a call of the estimator with the inputs of the call before it returns
\* a result equal to the earlier one in every field.
C11_EqualInputsEqualOutputs ==
    [][(estResult # NoEstimate /\ estOpportunity' = estOpportunity)
          => estResult' = estResult]_vars

\* C11 witness: the estimator has returned a full result at a later time
\* than the start
C11_Witness ==
    /\ estResult.reason = ""
    /\ estResult.timestamp > 0

\* This step ends the request of chain c with an error for its caller:
\* executeRequest's catch ran (the error count of the client is above zero
\* afterwards) and no failover leg was started
CallerGetsError(c) ==
    /\ chains[c].pc # "idle"
    /\ ~chains[c].detached
    /\ chains'[c].pc = "idle" \/ chains'[c].detached
    /\ consecutiveErrors'[chains[c].client] > 0
    /\ ~\E d \in ChainIds :
          /\ chains'[d] # chains[d]
          /\ chains'[d].pc = "call"
          /\ chains'[d].outer = chains[c].client

\* C12: a request ends with an error for its caller only in a step in which
\* the last attempt on its provider has failed and no failover is left.
C12_ErrorOnlyWhenExhausted ==
    [][\A c \in ChainIds :
          CallerGetsError(c) =>
              (chains[c].pc = "call" /\ chains[c].attempt = MaxRetries)]_vars

\* This step is the return of a successful call of chain c that
\* executeRequest was still awaiting: updateSuccessMetrics has run
SuccessfulCall(c) ==
    /\ chains[c].pc = "call"
    /\ ~chains[c].detached
    /\ chains'[c].pc = "idle"
    /\ consecutiveErrors'[chains[c].client] = 0

\* C13: right after a successful call to a provider its breaker is closed
\* and its failure counter is zero.
C13_SuccessResetsBreaker ==
    [][\A c \in ChainIds :
          SuccessfulCall(c) =>
              /\ ~circuitBreakers'[chains[c].client].isOpen
              /\ circuitBreakers'[chains[c].client].failureCount = 0]_vars

C15_NothingAdmittedAfterStop ==
    [][(~isRunning /\ ~isRunning') =>
          /\ Len(executionQueue') <= Len(executionQueue)
          /\ nextExec' = nextExec]_vars

\* C15 witness: stop() has been called, a scan that began before it has
\* delivered, and its opportunities are in the queue of the stopped engine
C15_Witness ==
    /\ ~isRunning
    /\ stopWaiters > 0
    /\ scansInFlight = 0
    /\ executionQueue # <<>>

C17_SimulationNeverSubmits ==
    simulationMode => \A e \in ExecIds : execState[e] \notin InFlight

\* C17 witness: the simulation switch is on and a transaction is pending
C17_Witness ==
    simulationMode /\ \E e \in ExecIds : execState[e] = "Pending"

C19_CallbackKeepsMinProfit ==
    cbResult.completed =>
        cbResult.balance >= cbCall.amount + Premium(cbCall) + cbCall.minProfit

\* C19 witness: the JavaScript callback completed with a balance that covers
\* the repayment and the minimum profit each, but not both together
C19_Witness ==
    /\ cbCall.kind = "callback"
    /\ cbResult.completed
    /\ cbCall.own = 0
    /\ cbResult.balance < cbCall.amount + cbCall.fee + cbCall.minProfit

\* The daily gas budget of a chain in the specification's scenario, cents:
\* the gas estimate of one execution that passes validateOpportunity
DailyGasBudget == 1

\* Executions of chain c whose transaction the node took (all within one
\* day): an execution reaches Pending only through submitTransaction, and
\* Succeeded and Reverted only from Pending
SubmittedOn(c) ==
    {e \in ExecIds : /\ execState[e] \in {"Pending", "Succeeded", "Reverted"}
                     /\ AllOpps[execOpp[e]].chain = c}

\* The gas the transactions submitted on chain c were charged, cents; each
\* is charged what estimateGasCost expects of one execution
GasSpentOn(c) == Cardinality(SubmittedOn(c)) * EngineGasCost

\* C20: for every chain the gas spent by the executions submitted on it
\* during a day never exceeds the chain's daily gas budget.
C20_DailyGasBudgetKept ==
    \A c \in Chains : GasSpentOn(c) <= DailyGasBudget

\* C20 witness: two executions of one chain were submitted on the same day
\* and together they spent more than the chain's budget
C20_Witness ==
    \E c \in Chains :
        /\ Cardinality(SubmittedOn(c)) = 2
        /\ EngineGasCost <= DailyGasBudget
        /\ GasSpentOn(c) > DailyGasBudget

\* C23: the operation of one request on one provider is called at most R
\* times; after failed attempt k < R the retry loop sleeps min(1 s * 2^(k-1),
\* 10 s) before the next attempt, and it never sleeps after attempt R.
C23_BoundedAttemptsWithBackoff ==
    \A c \in ChainIds :
        /\ chains[c].attempt <= 3
        /\ chains[c].pc = "sleep" =>
             /\ chains[c].attempt < 3
             /\ chains[c].delay = Min(1000 * 2 ^ (chains[c].attempt - 1), 10000)
        /\ chains[c].pc # "sleep" => chains[c].delay = 0

\* C23 witness: a retry loop sleeps 2 s after its second failed attempt
C23_Witness ==
    \E c \in ChainIds :
        /\ chains[c].pc = "sleep"
        /\ chains[c].attempt = 2
        /\ chains[c].delay = 2000

\* This step is the timeout of the request of chain c running out
TimeoutFires(c) == ~chains[c].detached /\ chains'[c].detached

\* C24: a timeout that runs out during an attempt that is not the last one
\* ends that attempt only: the request is not recorded as a failed request of
\* its provider, and its remaining attempts take place for the caller.
C24_TimeoutEndsAttemptOnly ==
    [][\A c \in ChainIds :
          (TimeoutFires(c) /\ chains[c].pc = "call" /\ chains[c].attempt < MaxRetries) =>
              /\ circuitBreakers'[chains[c].client] = circuitBreakers[chains[c].client]
              /\ weight'[chains[c].client] = weight[chains[c].client]]_vars

\* C24 witness: the timeout ran out during the first attempt of a request,
\* which was recorded as a failed request while the attempt goes on unheard
C24_Witness ==
    \E c \in ChainIds :
        /\ chains[c].detached
        /\ chains[c].pc = "call"
        /\ chains[c].attempt = 1
        /\ circuitBreakers[chains[c].client].failureCount > 0

\* This step is a health probe of client p settling as failed
ProbeFailed(p) == probing[p] /\ ~probing'[p] /\ ~clientHealthy'[p]

\* C26: a failed health probe raises the provider's consecutive-error counter
\* by one (the model keeps the counter up to the unhealthy threshold), and it
\* turns a healthy provider unhealthy only when the counter has reached three.
C26_UnhealthyAfterThreeFailedProbes ==
    [][\A p \in Clients :
          ProbeFailed(p) =>
              /\ \/ consecutiveErrors'[p] = consecutiveErrors[p] + 1
                 \/ consecutiveErrors[p] = UnhealthyThreshold
              /\ clientHealthy[p] => consecutiveErrors'[p] >= 3]_vars

\* C26 witness: a provider is unhealthy after a failed probe while its
\* consecutive-error counter is zero
C26_Witness ==
    \E p \in clients :
        /\ ~clientHealthy[p]
        /\ ~probing[p]
        /\ consecutiveErrors[p] = 0

\* This step is a health probe of client p settling as passed
ProbePassed(p) == probing[p] /\ ~probing'[p] /\ clientHealthy'[p]

\* C27: an unhealthy provider that passes one health probe is healthy again
\* and its load-balancing weight is back at 1.0 in the same step.
C27_RecoveryResetsWeight ==
    [][\A p \in Clients :
          (~clientHealthy[p] /\ ProbePassed(p)) =>
              /\ clientHealthy'[p]
              /\ weight'[p] = InitialWeight]_vars

\* C27 witness: a provider that three failed requests had turned unhealthy is
\* healthy again after a passed probe (only a probe restores health without
\* clearing the error counter) and its weight is not 1.0
C27_Witness ==
    \E p \in clients :
        /\ clientHealthy[p]
        /\ ~probing[p]
        /\ consecutiveErrors[p] = UnhealthyThreshold
        /\ weight[p] # InitialWeight

NewRequest(c) ==
    /\ chains[c].pc = "idle"
    /\ chains'[c].pc = "call"
    /\ chains'[c].outer = "none"

FailoverStarts(d) ==
    /\ chains'[d] # chains[d]
    /\ chains'[d].pc = "call"
    /\ chains'[d].attempt = 1
    /\ chains'[d].outer # "none"
    /\ ~chains'[d].detached

\* This step is the final failure of the request of chain c (its last
\* attempt failed or its timeout ran out) while its caller awaited it
FinalFailure(c) ==
    /\ chains[c].pc # "idle"
    /\ ~chains[c].detached
    /\ chains'[c] # chains[c]
    /\ chains'[c].detached \/ chains'[c].pc = "idle" \/ FailoverStarts(c)
    /\ consecutiveErrors'[chains[c].client] > 0

\* The failover legs this step starts are legs for the failed client p on
\* another client that shares a capability with p, and there are n of them
LegsStarted(p, n) ==
    /\ Cardinality({d \in ChainIds : FailoverStarts(d)}) = n
    /\ \A d \in ChainIds :
          FailoverStarts(d) =>
              /\ chains'[d].outer = p
              /\ chains'[d].client # p
              /\ capabilities[chains'[d].client] \cap capabilities[p] # {}

\* Some client other than p shares a capability with p and is healthy with a
\* closed breaker
HasAlternative(p) ==
    \E q \in clients \ {p} :
        /\ capabilities[q] \cap capabilities[p] # {}
        /\ clientHealthy[q]
        /\ ~circuitBreakers[q].isOpen

TierRank(tier) ==
    CASE tier = "critical" -> 0
      [] tier = "high"     -> 1
      [] tier = "medium"   -> 2
      [] tier = "low"      -> 3

CursorOf(cap) == selCounters[AvailableFor(cap)]

\* This step serves a request for capability cap under round-robin
RoundRobinServed(cap) ==
    /\ selCounters' # selCounters
    /\ selLast'.strategy = "round-robin"
    /\ selLast'.capability = cap

\* C28: under the round-robin policy each capability has its own cursor: a
\* request for a capability is served by the client its cursor points at in
\* the list of that capability's available clients and moves that cursor by
\* one, and it does not move the cursor of any other capability.
C28_CursorPerCapability ==
    [][\A cap \in AllCapabilities :
          RoundRobinServed(cap) =>
              /\ selLast'.chosen =
                     AvailableFor(cap)[(CursorOf(cap) % Len(AvailableFor(cap))) + 1]
              /\ selCounters'[AvailableFor(cap)] = CursorOf(cap) + 1
              /\ \A other \in AllCapabilities \ {cap} :
                     AvailableFor(other) # <<>> =>
                         selCounters'[AvailableFor(other)] = CursorOf(other)]_vars

\* One request was served, for market-data, and the cursor a pricing
\* request reads stands at 1
C28_Witness ==
    /\ selLast.strategy = "round-robin"
    /\ selLast.capability = "market-data"
    /\ AvailableFor("pricing") # <<>>
    /\ CursorOf("pricing") = 1
    /\ \A l \in NameLists : l # AvailableFor("pricing") => selCounters[l] = 0

\* C30: the scanner emits an opportunity (counts it as detected and puts it
\* in the ranking) only if the estimator's result for it is profitable and
\* its confidence, the one calculateConfidence gives for it, is at least 0.5.
C30_EmittedProfitableAndConfident ==
    \A i \in 1..Len(opportunities) :
        /\ opportunities[i].profitable
        /\ opportunities[i].confidence = CalculateConfidence(opportunities[i])
        /\ opportunities[i].confidence >= MinExecConfidence

\* A scan emitted two opportunities, one of them with reduced confidence
C30_Witness ==
    /\ Len(opportunities) = 2
    /\ opportunitiesDetected >= 2
    /\ \E i \in 1..2 : opportunities[i].confidence < 1000
    /\ \E i \in 1..2 : opportunities[i].confidence = 1000

\* The opportunities the step pushes into the execution queue
Pushed == SubSeq(executionQueue', Len(executionQueue) + 1, Len(executionQueue'))

\* The top-K of the scanner
TopK == 3

\* C31: in each scanner tick the opportunities handed on for execution are
\* the K (default 3) emitted opportunities with the largest net profit, in
\* descending order of net profit: a scan pushes at most K opportunities and
\* none of them before one with a smaller net profit.
C31_TopKByNetProfit ==
    [][(scansInFlight' < scansInFlight) =>
          /\ Len(Pushed) <= TopK
          /\ \A k \in 1..(Len(Pushed) - 1) :
                 ExpectedProfit(Pushed[k]) >= ExpectedProfit(Pushed[k + 1])]_vars

\* A scan pushed two opportunities whose expected profits differ
C31_Witness ==
    /\ Len(executionQueue) = 2
    /\ scansInFlight = 0
    /\ ExpectedProfit(executionQueue[1]) # ExpectedProfit(executionQueue[2])

\* The pair-specific minimum of the pair called id: its minVolume, the one
\* minimum a target pair carries
PairMinimum(id) ==
    LET k == CHOOSE j \in 1..Len(TargetPairs) : TargetPairs[j].id = id
    IN  TargetPairs[k].minVolume

C33_ProviderFitsOpportunity ==
    \A i \in 1..Len(opportunities) :
        LET o == opportunities[i]
            provider == FlashLoanProviders[o.flashLoanProvider]
        IN  /\ provider.chain = o.chain
            /\ PairTokens(o.pair) \cap provider.supportedTokens # {}
            /\ provider.maxLoanAmount >= o.volume

\* A scan emitted the USDT/USDC opportunity on both chains
C33_Witness ==
    /\ \E i \in 1..Len(opportunities) :
           opportunities[i].pair = "usdt-usdc" /\ opportunities[i].chain = "bsc"
    /\ \E i \in 1..Len(opportunities) :
           opportunities[i].pair = "usdt-usdc" /\ opportunities[i].chain = "polygon"

\* C34: each opportunity placed in the execution queue is dequeued and
\* executed at most once, and a dequeued opportunity never re-enters the
\* queue: a step either leaves the queue alone, or removes its head and
\* creates exactly one execution, for that head, or appends the answer of
\* a scan behind the entries already queued; executions are created by a
\* dequeue only.
C34_DequeuedOnce ==
    [][/\ \/ executionQueue' = executionQueue
          \/ /\ executionQueue # <<>>
             /\ executionQueue' = Tail(executionQueue)
             /\ nextExec' = nextExec + 1
             /\ execOpp'[nextExec] = Head(executionQueue)
             /\ execState[nextExec] = "None"
             /\ execState'[nextExec] = "Created"
          \/ /\ Len(executionQueue') > Len(executionQueue)
             /\ SubSeq(executionQueue', 1, Len(executionQueue)) = executionQueue
             /\ scansInFlight' = scansInFlight - 1
             /\ nextExec' = nextExec
       /\ nextExec' # nextExec => executionQueue' # executionQueue
       /\ \A e \in ExecIds : e < nextExec => execOpp'[e] = execOpp[e]]_vars

\* Every execution of the run was created and an opportunity still waits
C34_Witness ==
    /\ nextExec = MaxExec + 1
    /\ executionQueue # <<>>

\* C35: every transaction that is submitted was first executed read-only
\* against the latest chain state, with success and a margin still above
\* the threshold: an execution starts submitting only out of a simulation,
\* and one whose simulation fails is never submitted.
C35_SimulatedBeforeSubmitted ==
    [][\A e \in ExecIds :
          (execState'[e] = "Submitting" /\ execState[e] # "Submitting")
              => execState[e] = "Simulating"]_vars

\* A transaction was submitted and waits for its receipt
C35_Witness == \E e \in ExecIds : execState[e] = "Pending"

\* The requests now dispatched to client p: the retry loops on p that a
\* caller still awaits
AwaitedRequestsOn(p) ==
    {c \in ChainIds : chains[c].pc # "idle" /\ chains[c].client = p /\ ~chains[c].detached}

ReturnedToCaller(c) ==
    /\ chains[c].detached
    /\ \A d \in ChainIds : chains[d].pc = "idle" \/ chains[d].outer = "none"

\* C37: once a routed request has returned to its caller, no further
\* invocation of a provider is made on its behalf: a retry loop whose
\* request has returned starts no new attempt.
C37_NoInvocationAfterReturn ==
    [][\A c \in ChainIds :
          (ReturnedToCaller(c) /\ chains[c].pc = "sleep") => chains'[c].pc # "call"]_vars

\* A request timed out while its loop slept between two attempts
C37_Witness ==
    \E c \in ChainIds :
        /\ ReturnedToCaller(c)
        /\ chains[c].pc = "sleep"
        /\ chains[c].attempt < MaxRetries

\* The capability every request of the failover scenarios is routed for
RoutedCapability == "pricing"

C39_TotalIsSuccessPlusFailed ==
    stats.executionStats.totalExecutions =
        stats.executionStats.successfulExecutions + stats.executionStats.failedExecutions

\* An execution was ended by an exception and another one succeeded
C39_Witness ==
    /\ \E e \in ExecIds : reported[e] = "executionError"
    /\ \E e \in ExecIds : reported[e] = "executionSuccess"
    /\ stats.executionStats.failedExecutions >= 1
    /\ stats.executionStats.successfulExecutions >= 1

\* The upstream requests sent in the interval of length resetPeriod that
\* begins at tick t
SentWithinPeriodFrom(t) ==
    LET RECURSIVE Sum(_)
        Sum(k) == IF k >= RateLimitResetPeriod \/ t + k > MaxLimitNow THEN 0
                  ELSE sentAt[t + k] + Sum(k + 1)
    IN  Sum(0)

\* A request that arrives when the limit is reached
ArrivesAtLimit ==
    /\ rateLimiter' # rateLimiter \/ limitLast' # limitLast \/ sentAt' # sentAt
    /\ limitNow' = limitNow
    /\ CheckRateLimit(limitNow, rateLimiter).threw

\* C40: the rate limiter of the price client admits at most maxRequests
\* upstream requests in any time interval of length resetPeriod, and a request
\* arriving when the limit is reached is rejected with an error and not sent
C40_AtMostMaxRequestsPerPeriod ==
    /\ [](\A t \in LimitTicks : SentWithinPeriodFrom(t) <= RateLimitMaxRequests)
    /\ [][ArrivesAtLimit => limitLast' = "rejected" /\ sentAt' = sentAt]_vars

\* The limit was reached and the request that arrived then was rejected
C40_Witness ==
    /\ limitLast = "rejected"
    /\ rateLimiter.requests = RateLimitMaxRequests
    /\ SentWithinPeriodFrom(rateLimiter.lastReset) = RateLimitMaxRequests
====
